---- MODULE Spec2Model ----
(***************************************************************************)
(* A model of selecta (ntamas/python-selecta): the match model             *)
(* (selecta/matches.py), the search indexes (selecta/indexing.py), the     *)
(* string helpers (selecta/utils.py) and the interactive session           *)
(* (selecta/ui.py, SmartTerminalUI).                                       *)
(*                                                                         *)
(* Python strings are sequences of one-character strings; positions in     *)
(* the operators below are Python's 0-based positions.  Python's None for  *)
(* an optional integer is the empty tuple and Some(i) is <<i>>.            *)
(***************************************************************************)
EXTENDS Integers, Sequences, FiniteSets, TLC

VARIABLES
    \* ---- Match.canonicalize / canonical_ranges (matches.py)
    substrings,     \* Match.substrings of the match being canonicalized
    ranges0,        \* the ranges the match was created with
    result,         \* local `result` of canonical_ranges
    changed,        \* local `changed` of canonical_ranges
    canon_pc,       \* "idle" (outside canonical_ranges) or "loop" (inside the while)
    canon_calls,    \* number of completed Match.canonicalize calls
    \* ---- IndexBase / SubstringIndex / FuzzyIndex (indexing.py)
    index_kind,     \* "SubstringIndex" or "FuzzyIndex": the class of the index
    case_sensitive, \* SubstringIndex._case_sensitive
    tokens_to_items,\* IndexBase._tokens_to_items: token -> list of items
    token_order,    \* the order in which _tokens_to_items.iteritems() yields the tokens
    hash_order,     \* the order in which a dict keyed by items yields its keys
    added,          \* the (item, token) pairs handed to _add_token_for_item so far
    num_adds,       \* number of add() calls made
    last_query,     \* <<q>> when the latest call on the index was search(q), else <<>>
    last_result,    \* the list of Match objects that search call returned
    last_error,     \* the exception that search call raised, "" if it returned
    \* ---- SmartTerminalUI (ui.py)
    _query,         \* SmartTerminalUI._query
    best_matches,   \* SmartTerminalUI._best_matches
    selected_index, \* SmartTerminalUI._selected_index: None or Some(i)
    ui_shown,       \* SmartTerminalUI._ui_shown
    ui_pc,          \* "idle" (no session), "start" (before choose_item), "getch"
                    \* (choose_item waits for a key), "returned", "raised"
    initial_query,  \* the argument of choose_item: None or Some(string)
    char,           \* the key the latest getch delivered, NoKey before the first
    retval,         \* what choose_item returned: None or Some(match)
    ui_error,       \* the exception that left choose_item, "" if none
    searches,       \* index.search calls made while handling the latest key
    \* ---- Match.__lt__ (matches.py)
    cmp_a,          \* three Match objects that are compared
    cmp_b,
    cmp_c,
    cmp_lt,         \* <<>>, or the outcomes of the comparisons made on them
    \* ---- each_index_of_string (utils.py)
    gen_string,     \* argument `string`
    gen_corpus,     \* argument `corpus`
    gen_start,      \* local `start`
    gen_yielded,    \* the indices yielded so far, in order
    gen_pc,         \* "idle", "running" (inside while True) or "done" (returned)
    \* ---- Terminal and its subclasses (terminal.py), and what surrounds them
    has_curses,     \* `import curses` succeeds
    has_colorama,   \* `import colorama` succeeds
    stream_isatty,  \* stream.isatty() of the output stream
    terminfo,       \* the cursor tokens for which terminfo has a capability string
    cud1,           \* the capability string terminfo has for cud1 (cursor down)
    term_result,    \* None, or the burst the latest Terminal.getch() read and what it returned
    term_class,     \* the class of the terminal object, "" before it is created
    is_tty,         \* the is_tty argument the terminal was created with
    _is_tty,        \* Terminal._is_tty
    _initialized,   \* Terminal._initialized
    _control_sequences, \* Terminal._control_sequences: None or a table
    _deinit_hook,   \* Terminal._deinit_hook: "" for None, or the name of the hook
    term_call,      \* the latest call made on or with the terminal
    term_error,     \* the exception that call raised, "" if it returned
    stream_out,     \* number of times a UI was drawn on the terminal's stream
    with_pc,        \* "outside", "body" or "after" a with-block on the terminal
    body_exit,      \* how the body of that block was left, "" while it was not
    deinit_calls,   \* deinit() calls made on behalf of that block
    \* ---- Terminal.render (terminal.py)
    tpl_template,   \* argument `template`
    tpl_output,     \* None, or Some(the string render returned)
    tpl_error,      \* the exception render raised, "" if none
    \* ---- the raw keystroke read, _getch (terminal.py)
    tty_attrs,      \* the terminal attributes of the input descriptor
    tty_attrs0,     \* the attributes when _getch was called
    old_settings,   \* local `old_settings`: None before tcgetattr
    getch_block,    \* argument `block`
    fd_pending,     \* number of bytes waiting on the descriptor
    getch_read,     \* number of bytes read into `result`
    getch_pc,       \* position inside _getch, "idle" outside
    getch_outcome,  \* "", "burst", "None" or the exception that left _getch
    \* ---- FuzzyIndex._score_token and _find_end_of_match (indexing.py)
    sc_query,       \* the query, in lower case, that is prepared
    sc_token,       \* argument `token` of _score_token
    sc_other,       \* a second token scored for the same query
    sc_start,       \* argument `start` of the latest _find_end_of_match call
    sc_end,         \* None, or Some(what that call returned or raised)
    sc_scored,      \* None, or Some(what _score_token returned for token and other)
    \* ---- SmartTerminalUI drawing on the terminal (ui.py), rows counted from the row of the first draw
    dr_pc,          \* "idle", "new" before the UI is constructed, "session" inside UI.use, "exited" after it
    dr_shown,       \* SmartTerminalUI._ui_shown
    dr_row,         \* the row of the cursor
    dr_col,         \* the column of the cursor
    dr_lo,          \* the topmost row the cursor was on during the latest refresh
    dr_hi,          \* the bottommost row the cursor was on during the latest refresh
    dr_lines,       \* what _show_matches returned in the latest refresh
    dr_matches,     \* len(self._best_matches)
    dr_qlen,        \* len(self.query)
    dr_prints,      \* lines printed by choose_item for unhandled keys
    dr_disposes,    \* dispose() calls made
    dr_call,        \* the latest step: one of Refreshes, "print", "use" or "dispose"
    dr_exit,        \* how the UI.use scope was left, "" while it was not
    dr_written,     \* what the latest step wrote to the terminal
    \* ---- DumbTerminalUI.choose_item (ui.py)
    du_pc,          \* "idle", "new" before choose_item, "prompt" in its loop, "returned" or "raised"
    du_matches,     \* the local `matches`: None, or Some(the list search returned)
    du_query,       \* None, or Some(the query of the latest search)
    du_line,        \* None, or Some(the latest line read_query returned)
    du_result,      \* None, or Some(the match choose_item returned)
    du_error        \* the exception choose_item raised, "" if none

rngVars == <<substrings, ranges0, result, changed, canon_pc, canon_calls>>
idxVars == <<index_kind, case_sensitive, tokens_to_items, token_order, hash_order,
             added, num_adds>>
srchVars == <<last_query, last_result, last_error>>
uiVars == <<_query, best_matches, selected_index, ui_shown, ui_pc, initial_query,
            char, retval, ui_error, searches>>
cmpVars == <<cmp_a, cmp_b, cmp_c, cmp_lt>>
genVars == <<gen_string, gen_corpus, gen_start, gen_yielded, gen_pc>>
termVars == <<has_curses, has_colorama, stream_isatty, terminfo, cud1, term_result, term_class,
              is_tty, _is_tty, _initialized, _control_sequences, _deinit_hook, term_call,
              term_error, stream_out, with_pc, body_exit, deinit_calls>>
tplVars == <<tpl_template, tpl_output, tpl_error>>
rawVars == <<tty_attrs, tty_attrs0, old_settings, getch_block, fd_pending,
             getch_read, getch_pc, getch_outcome>>
scoreVars == <<sc_query, sc_token, sc_other, sc_start, sc_end, sc_scored>>
drawVars == <<dr_pc, dr_shown, dr_row, dr_col, dr_lo, dr_hi, dr_lines, dr_matches,
              dr_qlen, dr_prints, dr_disposes, dr_call, dr_exit, dr_written>>
dumbVars == <<du_pc, du_matches, du_query, du_line, du_result, du_error>>
vars == <<rngVars, idxVars, srchVars, uiVars, cmpVars, genVars, termVars, tplVars,
          rawVars, scoreVars, drawVars, dumbVars>>

\* What the actions of one part of the program leave alone: the variables of
\* the other parts.
outsideIndex == <<rngVars, uiVars, cmpVars, genVars, termVars, tplVars, rawVars, scoreVars, drawVars, dumbVars>>
outsideRanges == <<idxVars, srchVars, uiVars, cmpVars, genVars, termVars, tplVars,
                   rawVars, scoreVars, drawVars, dumbVars>>
outsideSession == <<idxVars, srchVars, rngVars, cmpVars, genVars, termVars,
                    tplVars, rawVars, scoreVars, drawVars, dumbVars>>
outsideMatch == <<rngVars, idxVars, srchVars, uiVars, genVars, termVars, tplVars,
                  rawVars, scoreVars, drawVars, dumbVars>>
outsideEachIndex == <<rngVars, idxVars, srchVars, uiVars, cmpVars, termVars,
                      tplVars, rawVars, scoreVars, drawVars, dumbVars>>
outsideTerminal == <<rngVars, idxVars, srchVars, uiVars, cmpVars, genVars, tplVars,
                     rawVars, scoreVars, drawVars, dumbVars>>
outsideRender == <<rngVars, idxVars, srchVars, uiVars, cmpVars, genVars, termVars,
                   rawVars, scoreVars, drawVars, dumbVars>>
outsideGetch == <<rngVars, idxVars, srchVars, uiVars, cmpVars, genVars, termVars,
                  tplVars, scoreVars, drawVars, dumbVars>>
outsideScore == <<rngVars, idxVars, srchVars, uiVars, cmpVars, genVars, termVars,
                  tplVars, rawVars, drawVars, dumbVars>>
outsideDraw == <<rngVars, idxVars, srchVars, uiVars, cmpVars, genVars, termVars,
                 tplVars, rawVars, scoreVars, dumbVars>>
outsideDumb == <<rngVars, idxVars, srchVars, uiVars, cmpVars, genVars, termVars,
                 tplVars, rawVars, scoreVars, drawVars>>

(***************************************************************************)
(* Bounds of the model.                                                    *)
(***************************************************************************)
MaxRanges == 3      \* longest list of ranges given to canonical_ranges
MaxPos == 4         \* largest character position used in a range
MaxCanonCalls == 2  \* canonicalize calls followed on one match
MaxLen == 3         \* longest item (display string) and token
MaxNameLen == 1     \* longest display string of an item added with its own tokenizer
MaxQueryLen == 2    \* longest query given to search()
MaxAdds == 2        \* add() calls made on one index
MaxSeedLen == 2     \* longest initial query given to choose_item
MaxDrawings == 2    \* most drawings of a UI on one terminal
MaxTemplateLen == 5 \* longest template drawn from TemplateChars
MaxPending == 3     \* most bytes of the keys pressed around one getch call
MaxTyped == 2       \* longest query the user types
MaxTokenLen == 4    \* longest token scored on its own
MaxFuzzyQueryLen == 3 \* longest query scored on its own
MaxMatchCount == 10 \* most matches a search returns to a UI that draws them
MaxQueryChars == 2  \* longest query drawn
MaxPrints == 2      \* most lines printed for unhandled keys in one session
MaxDisposes == 2    \* most dispose() calls made on one UI
MaxLineLen == 2     \* longest line typed at the prompt of DumbTerminalUI
MaxDumbMatches == 2 \* most matches a search returns to DumbTerminalUI

(***************************************************************************)
(* Generic helpers: Python's min/max, tuple order, sorted().               *)
(*                                                                         *)
(* Where a computed value is used several times, it is bound once with     *)
(*     CHOOSE r \in {e : x \in {v}} : TRUE                                  *)
(* which is LET x == v IN e with v evaluated a single time.                *)
(***************************************************************************)
None == <<>>
Some(x) == <<x>>

Min2(a, b) == IF a <= b THEN a ELSE b
Max2(a, b) == IF a >= b THEN a ELSE b
SetMin(S) == CHOOSE x \in S : \A y \in S : x <= y

\* Python's order on (start, end) tuples of integers.
PairLess(p, q) == p[1] < q[1] \/ (p[1] = q[1] /\ p[2] < q[2])

\* list.insert keeping a list sorted under PairLess, after equal elements:
\* repeated, it is the stable sort that sorted(ranges) performs.
RECURSIVE InsertPair(_, _)
InsertPair(p, s) ==
    IF s = <<>> THEN <<p>>
    ELSE IF PairLess(p, Head(s)) THEN <<p>> \o s
    ELSE <<Head(s)>> \o InsertPair(p, Tail(s))

RECURSIVE SortedPairs(_)
SortedPairs(s) ==
    IF s = <<>> THEN <<>>
    ELSE CHOOSE r \in
             {InsertPair(s[Len(s)], front) :
                 front \in {SortedPairs(init) :
                               init \in {SubSeq(s, 1, Len(s) - 1)}}} : TRUE

(***************************************************************************)
(* canonical_ranges (matches.py:34-80).                                    *)
(***************************************************************************)
\* The for loop of one pass (matches.py:67-76) over the ranges left in
\* `result` after result.pop(0): st = [prev |-> (prev_start, prev_end),
\* next |-> next_result, changed |-> changed].
RECURSIVE MergeLoop(_, _)
MergeLoop(st, rest) ==
    IF rest = <<>> THEN st
    ELSE LET curr == Head(rest) IN
         IF st.prev[2] >= curr[1]
         THEN \* prev and curr overlap: prev_end = curr_end
              MergeLoop([st EXCEPT !.prev = <<st.prev[1], curr[2]>>,
                                   !.changed = TRUE],
                        Tail(rest))
         ELSE MergeLoop([st EXCEPT !.prev = curr,
                                   !.next = Append(st.next, st.prev)],
                        Tail(rest))

\* A forgotten trailing flush: the last (prev_start, prev_end) is not appended.
MergePassNoFlush(res) ==
    LET st == MergeLoop([prev |-> Head(res), next |-> <<>>, changed |-> FALSE],
                        Tail(res))
    IN [next |-> st.next, changed |-> st.changed]

\* Touching ranges are not merged (> instead of >=).
RECURSIVE MergeLoopStrict(_, _)
MergeLoopStrict(st, rest) ==
    IF rest = <<>> THEN st
    ELSE LET curr == Head(rest) IN
         IF st.prev[2] > curr[1]
         THEN MergeLoopStrict([st EXCEPT !.prev = <<st.prev[1], curr[2]>>,
                                         !.changed = TRUE],
                              Tail(rest))
         ELSE MergeLoopStrict([st EXCEPT !.prev = curr,
                                         !.next = Append(st.next, st.prev)],
                              Tail(rest))

MergePassStrict(res) ==
    LET st == MergeLoopStrict([prev |-> Head(res), next |-> <<>>, changed |-> FALSE],
                              Tail(res))
    IN [next |-> Append(st.next, st.prev), changed |-> st.changed]

\* One iteration of the while loop past its length test (matches.py:65-78):
\* the new `result` and `changed`.
MergePass(res) ==
    LET st == MergeLoop([prev |-> Head(res), next |-> <<>>, changed |-> FALSE],
                        Tail(res))
    IN [next |-> Append(st.next, st.prev), changed |-> st.changed]

\* The while loop (matches.py:61-80) from the value of `result`.
RECURSIVE CanonicalLoop(_)
CanonicalLoop(res) ==
    IF Len(res) < 2 THEN res
    ELSE CHOOSE r \in
             {IF pass.changed THEN CanonicalLoop(pass.next) ELSE pass.next :
                 pass \in {MergePass(res)}} : TRUE

\* canonical_ranges(ranges) (matches.py:34-80).
canonical_ranges(ranges) ==
    IF Len(ranges) < 2 THEN ranges
    ELSE CHOOSE r \in {CanonicalLoop(sorted) :
                          sorted \in {SortedPairs(ranges)}} : TRUE

(***************************************************************************)
(* Strings (Python 2 str): comparison, lower(), find().                    *)
(***************************************************************************)
\* The characters of items and tokens, and the characters of queries.
Chars == {"a", "B"}
QueryChars == {"a", "b", "B"}

\* ord() of the characters used.
Ord(c) == CASE c = " " -> 32 [] c = "B" -> 66 [] c = "a" -> 97 [] c = "b" -> 98

\* str.lower().
LowerChar(c) == IF c = "B" THEN "b" ELSE c
Lower(s) == [i \in 1..Len(s) |-> LowerChar(s[i])]

\* Python's s < t on strings.
RECURSIVE StrLess(_, _)
StrLess(s, t) ==
    IF t = <<>> THEN FALSE
    ELSE IF s = <<>> THEN TRUE
    ELSE IF Head(s) = Head(t) THEN StrLess(Tail(s), Tail(t))
    ELSE Ord(Head(s)) < Ord(Head(t))

\* s.find(sub, start) for start >= 0: the lowest position >= start at which
\* sub occurs in s, or -1.
Find(s, sub, start) ==
    LET at == {i \in start..(Len(s) - Len(sub)) :
                  \A j \in 1..Len(sub) : s[i + j] = sub[j]}
    IN IF at = {} THEN -1 ELSE SetMin(at)

\* each_index_of_string (utils.py:9-25), the generator run to its end, resumed
\* after it yielded `start` (-1 at the beginning).
RECURSIVE EachIndexFrom(_, _, _)
EachIndexFrom(string, corpus, start) ==
    LET next == Find(corpus, string, start + 1)
    IN IF next < 0 THEN <<>>
       ELSE <<next>> \o EachIndexFrom(string, corpus, next)

each_index_of_string(string, corpus) == EachIndexFrom(string, corpus, -1)

\* list_packer (utils.py:52-54), the default tokenizer: the item itself.
list_packer(item) == <<item>>

(***************************************************************************)
(* Dictionaries: a dict is a function on its set of keys; the order in     *)
(* which it is iterated is the order of its keys in `order`.               *)
(***************************************************************************)
RECURSIVE DictItems(_, _)
DictItems(d, order) ==
    IF order = <<>> THEN <<>>
    ELSE IF Head(order) \in DOMAIN d
         THEN <<<<Head(order), d[Head(order)]>>>> \o DictItems(d, Tail(order))
         ELSE DictItems(d, Tail(order))

\* d[k] = v
DictPut(d, k, v) == [x \in DOMAIN d \cup {k} |-> IF x = k THEN v ELSE d[x]]

\* Python's order on the values that itemgetter(1) yields in
\* _create_matches_from: integers in SubstringIndex, (score, (start, end))
\* tuples in FuzzyIndex (tuples = TRUE).
KeyLess(tuples, a, b) ==
    IF tuples THEN a[1] < b[1] \/ (a[1] = b[1] /\ PairLess(a[2], b[2]))
    ELSE a < b

\* sorted(pairs, key=itemgetter(1)) for (item, key) pairs: a stable sort by
\* the second component.
RECURSIVE InsertByKey(_, _, _)
InsertByKey(p, s, tuples) ==
    IF s = <<>> THEN <<p>>
    ELSE IF KeyLess(tuples, p[2], Head(s)[2]) THEN <<p>> \o s
    ELSE <<Head(s)>> \o InsertByKey(p, Tail(s), tuples)

RECURSIVE SortedByKey(_, _)
SortedByKey(s, tuples) ==
    IF s = <<>> THEN <<>>
    ELSE CHOOSE r \in
             {InsertByKey(s[Len(s)], front, tuples) :
                 front \in {SortedByKey(init, tuples) :
                               init \in {SubSeq(s, 1, Len(s) - 1)}}} : TRUE

(***************************************************************************)
(* IndexBase (indexing.py:30-81).                                          *)
(***************************************************************************)
\* Match (matches.py:18-22) as built by _construct_match_for_item
\* (indexing.py:70-81); the displayer is str, which returns a string item
\* as it is.
ConstructMatchForItem(item, score, subs) ==
    [matched_object |-> item, matched_string |-> item,
     score |-> score, substrings |-> subs]

\* FuzzyIndex._add_token_for_item without its token.lower().
StoredTokenAsGiven(kind, cs, token) ==
    IF kind = "FuzzyIndex" THEN token
    ELSE IF ~cs THEN Lower(token)
    ELSE token

\* The token as _add_token_for_item of the index class stores it
\* (indexing.py:94-97, 145-146).
StoredToken(kind, cs, token) ==
    IF kind = "FuzzyIndex" THEN Lower(token)
    ELSE IF ~cs THEN Lower(token)
    ELSE token

(***************************************************************************)
(* SubstringIndex (indexing.py:84-135).                                    *)
(***************************************************************************)
\* The inner loop of _score_items (indexing.py:133-134): result is a
\* defaultdict(int), so a missing item reads as 0.
RECURSIVE SubstringScoreItemList(_, _, _)
SubstringScoreItemList(res, items, index) ==
    IF items = <<>> THEN res
    ELSE LET item == Head(items)
             old == IF item \in DOMAIN res THEN res[item] ELSE 0
         IN CHOOSE r \in
                {SubstringScoreItemList(next, Tail(items), index) :
                    next \in {DictPut(res, item, Min2(old, -index))}} : TRUE

\* _score_items with `index > 0` for `index >= 0`.
RECURSIVE SubstringScoreTokensPositive(_, _, _, _)
SubstringScoreTokensPositive(res, tokens, t2i, query) ==
    IF tokens = <<>> THEN res
    ELSE LET index == Find(Head(tokens), query, 0)
         IN CHOOSE r \in
                {SubstringScoreTokensPositive(next, Tail(tokens), t2i, query) :
                    next \in {IF index > 0
                              THEN SubstringScoreItemList(res, t2i[Head(tokens)],
                                                          index)
                              ELSE res}} : TRUE

\* The outer loop of _score_items (indexing.py:130-135) over the tokens left.
RECURSIVE SubstringScoreTokens(_, _, _, _)
SubstringScoreTokens(res, tokens, t2i, query) ==
    IF tokens = <<>> THEN res
    ELSE LET index == Find(Head(tokens), query, 0)
         IN CHOOSE r \in
                {SubstringScoreTokens(next, Tail(tokens), t2i, query) :
                    next \in {IF index >= 0
                              THEN SubstringScoreItemList(res, t2i[Head(tokens)],
                                                          index)
                              ELSE res}} : TRUE

SubstringScoreItems(t2i, torder, query) ==
    SubstringScoreTokens(<<>>, torder, t2i, query)

\* The highlighted ranges of one match (indexing.py:114-120).
SubstringRanges(cs, query, item) ==
    LET matched_string == IF ~cs THEN Lower(item) ELSE item
        at == each_index_of_string(query, matched_string)
    IN [i \in 1..Len(at) |-> <<at[i], at[i] + Len(query)>>]

\* _create_matches_from (indexing.py:106-122).
SubstringCreateMatchesFrom(cs, horder, query, items_and_scores) ==
    CHOOSE r \in
        {[i \in 1..Len(sorted) |->
             ConstructMatchForItem(sorted[i][1], -sorted[i][2],
                                   SubstringRanges(cs, query, sorted[i][1]))] :
            sorted \in {SortedByKey(pairs, FALSE) :
                           pairs \in {DictItems(d, horder) :
                                         d \in {items_and_scores}}}} : TRUE

\* SubstringIndex.search (indexing.py:99-104).
SubstringSearch(cs, t2i, torder, horder, query0) ==
    LET query == IF ~cs THEN Lower(query0) ELSE query0
    IN [raised |-> "",
        matches |-> SubstringCreateMatchesFrom(
                        cs, horder, query,
                        SubstringScoreItems(t2i, torder, query))]

(***************************************************************************)
(* FuzzyIndex (indexing.py:138-273).                                       *)
(***************************************************************************)
\* The loop of _find_end_of_match without the test of last_match_type:
\* every adjacent character is charged.
RECURSIVE FindEndLoopChargingEach(_, _, _, _, _)
FindEndLoopChargingEach(rest, token, start, score, last) ==
    IF rest = <<>> THEN [kind |-> "found", score |-> score, end |-> start]
    ELSE CHOOSE r \in
             {IF end < 0 THEN [kind |-> "none", score |-> 0, end |-> 0]
              ELSE IF end = start + 1
              THEN FindEndLoopChargingEach(Tail(rest), token, end, score + 1,
                                           "sequential")
              ELSE FindEndLoopChargingEach(Tail(rest), token, end,
                                           score + (end - start), "normal") :
                 end \in {Find(token, <<Head(rest)>>, start + 1)}} : TRUE

\* The for loop of _find_end_of_match (indexing.py:180-195) over the query
\* characters left; `last` is last_match_type.  At the end of the loop `end`
\* is the value last assigned to `start`.
RECURSIVE FindEndLoop(_, _, _, _, _)
FindEndLoop(rest, token, start, score, last) ==
    IF rest = <<>> THEN [kind |-> "found", score |-> score, end |-> start]
    ELSE CHOOSE r \in
             {IF end < 0 THEN [kind |-> "none", score |-> 0, end |-> 0]
              ELSE IF end = start + 1
              THEN FindEndLoop(Tail(rest), token, end,
                               IF last # "sequential" THEN score + 1 ELSE score,
                               "sequential")
              ELSE FindEndLoop(Tail(rest), token, end, score + (end - start),
                               "normal") :
                 end \in {Find(token, <<Head(rest)>>, start + 1)}} : TRUE

\* _find_end_of_match (indexing.py:162-196).  With no character left in
\* `rest` the loop body never runs and `return score, end` reads the unbound
\* local `end`: UnboundLocalError.
FindEndOfMatch(rest, token, start) ==
    IF rest = <<>> THEN [kind |-> "unbound", score |-> 1, end |-> 0]
    ELSE FindEndLoop(rest, token, start, 1, "")

\* _prepare_query (indexing.py:198-213): first is <<c>> for the first
\* character, <<>> for None.
PrepareQuery(query) ==
    IF query # <<>>
    THEN [first |-> <<Lower(query)[1]>>, rest |-> Tail(Lower(query))]
    ELSE [first |-> <<>>, rest |-> <<>>]

\* The loop of _score_token with `score <= best_score`: of two start
\* positions of equal cost the later one is kept.
RECURSIVE ScoreTokenLoopLatest(_, _, _, _)
ScoreTokenLoopLatest(best, starts, token, rest) ==
    IF starts = <<>> \/ best.raised # "" THEN best
    ELSE LET match_start == Head(starts) IN
         CHOOSE r \in
             {IF m.kind = "unbound"
              THEN [best EXCEPT !.raised = "UnboundLocalError"]
              ELSE IF m.kind = "found" /\ m.end # 0
                      /\ (~best.matched \/ m.score <= best.score)
              THEN ScoreTokenLoopLatest([raised |-> "", matched |-> TRUE,
                                         score |-> m.score,
                                         range |-> <<match_start, m.end + 1>>],
                                        Tail(starts), token, rest)
              ELSE ScoreTokenLoopLatest(best, Tail(starts), token, rest) :
                 m \in {FindEndOfMatch(rest, token, match_start)}} : TRUE

\* The for loop of _score_token (indexing.py:247-251) over the candidate
\* start positions left; best.matched is "best_match is not None".
RECURSIVE ScoreTokenLoop(_, _, _, _)
ScoreTokenLoop(best, starts, token, rest) ==
    IF starts = <<>> \/ best.raised # "" THEN best
    ELSE LET match_start == Head(starts) IN
         CHOOSE r \in
             {IF m.kind = "unbound"
              THEN [best EXCEPT !.raised = "UnboundLocalError"]
              ELSE IF m.kind = "found" /\ m.end # 0
                      /\ (~best.matched \/ m.score < best.score)
              THEN ScoreTokenLoop([raised |-> "", matched |-> TRUE,
                                   score |-> m.score,
                                   range |-> <<match_start, m.end + 1>>],
                                  Tail(starts), token, rest)
              ELSE ScoreTokenLoop(best, Tail(starts), token, rest) :
                 m \in {FindEndOfMatch(rest, token, match_start)}} : TRUE

\* _score_token without its `if first_char:` test: the start positions are
\* searched for whatever the first element of the prepared query is.
ScoreTokenUnguarded(token, pq) ==
    CHOOSE r \in
        {ScoreTokenLoop([raised |-> "", matched |-> FALSE, score |-> 0,
                         range |-> <<0, 0>>],
                        starts, token, pq.rest) :
            starts \in {each_index_of_string(pq.first, token)}} : TRUE

\* _score_token (indexing.py:229-253): (best_score, best_match), or the
\* exception raised.
ScoreToken(token, pq) ==
    LET none == [raised |-> "", matched |-> FALSE, score |-> 0, range |-> <<0, 0>>]
    IN IF pq.first # <<>>
       THEN CHOOSE r \in
                {ScoreTokenLoop(none, starts, token, pq.rest) :
                    starts \in {each_index_of_string(pq.first, token)}} : TRUE
       ELSE none

\* The inner loop of FuzzyIndex._score_items (indexing.py:224-226).
RECURSIVE FuzzyScoreItemList(_, _, _)
FuzzyScoreItemList(res, items, st) ==
    IF items = <<>> THEN res
    ELSE LET item == Head(items) IN
         CHOOSE r \in
             {FuzzyScoreItemList(next, Tail(items), st) :
                 next \in {IF item \notin DOMAIN res \/ res[item][1] < st.score
                           THEN DictPut(res, item, <<st.score, st.range>>)
                           ELSE res}} : TRUE

\* The outer loop of FuzzyIndex._score_items (indexing.py:221-227) over the
\* tokens left: acc = [raised, result].
RECURSIVE FuzzyScoreTokens(_, _, _, _)
FuzzyScoreTokens(acc, tokens, t2i, pq) ==
    IF tokens = <<>> \/ acc.raised # "" THEN acc
    ELSE CHOOSE r \in
             {IF st.raised # "" THEN [acc EXCEPT !.raised = st.raised]
              ELSE CHOOSE r2 \in
                       {FuzzyScoreTokens(next, Tail(tokens), t2i, pq) :
                           next \in {IF st.matched
                                     THEN [acc EXCEPT !.result =
                                              FuzzyScoreItemList(
                                                  acc.result, t2i[Head(tokens)], st)]
                                     ELSE acc}} : TRUE :
                 st \in {ScoreToken(Head(tokens), pq)}} : TRUE

FuzzyScoreItems(t2i, torder, pq) ==
    FuzzyScoreTokens([raised |-> "", result |-> <<>>], torder, t2i, pq)

\* The for loop of FuzzyIndex._create_matches_from (indexing.py:153-159) over
\* the sorted (item, (score, range)) pairs left: acc = [raised, matches].
\* The Match gets the whole dictionary value as its score.
RECURSIVE FuzzyCreateLoop(_, _, _)
FuzzyCreateLoop(acc, sorted, pq) ==
    IF sorted = <<>> \/ acc.raised # "" THEN acc
    ELSE LET item == Head(sorted)[1]
             score == Head(sorted)[2]
         IN CHOOSE r \in
                {IF st.raised # "" THEN [acc EXCEPT !.raised = st.raised]
                 ELSE CHOOSE r2 \in
                          {FuzzyCreateLoop(next, Tail(sorted), pq) :
                              next \in {[acc EXCEPT !.matches = Append(acc.matches,
                                           ConstructMatchForItem(
                                               item, score,
                                               IF st.matched THEN <<st.range>>
                                               ELSE <<>>))]}} : TRUE :
                    st \in {ScoreToken(Lower(item), pq)}} : TRUE

\* FuzzyIndex._create_matches_from (indexing.py:148-160).
FuzzyCreateMatchesFrom(horder, pq, items_and_scores) ==
    CHOOSE r \in
        {FuzzyCreateLoop([raised |-> "", matches |-> <<>>], sorted, pq) :
            sorted \in {SortedByKey(pairs, TRUE) :
                           pairs \in {DictItems(d, horder) :
                                         d \in {items_and_scores}}}} : TRUE

\* FuzzyIndex.search (indexing.py:255-258).
FuzzySearch(t2i, torder, horder, query) ==
    CHOOSE r \in
        {CHOOSE r2 \in
             {IF scored.raised # "" THEN [raised |-> scored.raised, matches |-> <<>>]
              ELSE FuzzyCreateMatchesFrom(horder, pq, scored.result) :
                 scored \in {FuzzyScoreItems(t2i, torder, pq)}} : TRUE :
            pq \in {PrepareQuery(query)}} : TRUE

\* index.search(query) of the index held in the state.
Search(query) ==
    IF index_kind = "FuzzyIndex"
    THEN FuzzySearch(tokens_to_items, token_order, hash_order, query)
    ELSE SubstringSearch(case_sensitive, tokens_to_items, token_order,
                         hash_order, query)

(***************************************************************************)
(* The index as a state machine: add() calls and search() calls.           *)
(***************************************************************************)
StringsUpTo(n, cs) == UNION {[1..k -> cs] : k \in 0..n}
Words == StringsUpTo(MaxLen, Chars) \ {<<>>}
Names == StringsUpTo(MaxNameLen, Chars) \ {<<>>}
Queries == StringsUpTo(MaxQueryLen, QueryChars)

\* s with x inserted so that it gets position p (1-based).
InsertAt(s, p, x) == SubSeq(s, 1, p - 1) \o <<x>> \o SubSeq(s, p, Len(s))
SeqRange(s) == {s[i] : i \in 1..Len(s)}

IndexEmpty ==
    /\ tokens_to_items = <<>>
    /\ token_order = <<>>
    /\ hash_order = <<>>
    /\ added = {}
    /\ num_adds = 0

NoSearch ==
    /\ last_query = <<>>
    /\ last_result = <<>>
    /\ last_error = ""

\* A call other than search() becomes the latest call on the index.
ForgetSearch ==
    /\ last_query' = <<>>
    /\ last_result' = <<>>
    /\ last_error' = ""

\* No match is being canonicalized: the canonicalize variables keep fixed values.
RangesIdle ==
    /\ ranges0 = <<>>
    /\ substrings = <<>>
    /\ result = <<>>
    /\ changed = FALSE
    /\ canon_pc = "idle"
    /\ canon_calls = 0

\* No Match is being compared: the comparison variables keep fixed values.
CmpIdle ==
    /\ cmp_a = <<>>
    /\ cmp_b = <<>>
    /\ cmp_c = <<>>
    /\ cmp_lt = <<>>

\* each_index_of_string is not running: its variables keep fixed values.
GenIdle ==
    /\ gen_string = <<>>
    /\ gen_corpus = <<>>
    /\ gen_start = 0
    /\ gen_yielded = <<>>
    /\ gen_pc = "idle"

\* No terminal exists: the terminal variables keep fixed values.
TermIdle ==
    /\ has_curses = FALSE
    /\ has_colorama = FALSE
    /\ stream_isatty = FALSE
    /\ terminfo = {}
    /\ cud1 = <<>>
    /\ term_result = None
    /\ term_class = ""
    /\ is_tty = None
    /\ _is_tty = FALSE
    /\ _initialized = FALSE
    /\ _control_sequences = None
    /\ _deinit_hook = ""
    /\ term_call = ""
    /\ term_error = ""
    /\ stream_out = 0
    /\ with_pc = "outside"
    /\ body_exit = ""
    /\ deinit_calls = 0

\* Terminal.render is not called: its variables keep fixed values.
TplIdle ==
    /\ tpl_template = <<>>
    /\ tpl_output = None
    /\ tpl_error = ""

\* _getch is not running: its variables keep fixed values.
RawIdle ==
    /\ tty_attrs = "cooked"
    /\ tty_attrs0 = "cooked"
    /\ old_settings = None
    /\ getch_block = TRUE
    /\ fd_pending = 0
    /\ getch_read = 0
    /\ getch_pc = "idle"
    /\ getch_outcome = ""

ScoreIdle ==
    /\ sc_query = <<>>
    /\ sc_token = <<>>
    /\ sc_other = <<>>
    /\ sc_start = None
    /\ sc_end = None
    /\ sc_scored = None

DrawIdle ==
    /\ dr_pc = "idle"
    /\ dr_shown = FALSE
    /\ dr_row = 0
    /\ dr_col = 0
    /\ dr_lo = 0
    /\ dr_hi = 0
    /\ dr_lines = 0
    /\ dr_matches = 0
    /\ dr_qlen = 0
    /\ dr_prints = 0
    /\ dr_disposes = 0
    /\ dr_call = ""
    /\ dr_exit = ""
    /\ dr_written = <<>>

DumbIdle ==
    /\ du_pc = "idle"
    /\ du_matches = None
    /\ du_query = None
    /\ du_line = None
    /\ du_result = None
    /\ du_error = ""

\* What Terminal.getch delivers before the first key is read.
NoKey == "none"

\* No session is running: the session variables keep fixed values.
SessionIdle ==
    /\ _query = <<>>
    /\ best_matches = <<>>
    /\ selected_index = None
    /\ ui_shown = FALSE
    /\ ui_pc = "idle"
    /\ initial_query = None
    /\ char = NoKey
    /\ retval = None
    /\ ui_error = ""
    /\ searches = 0

\* The index spec is not running: the index variables keep fixed values.
IndexIdle ==
    /\ index_kind = "FuzzyIndex"
    /\ case_sensitive = TRUE
    /\ IndexEmpty
    /\ NoSearch

\* IndexBase.__init__ (indexing.py:45-50), SubstringIndex.__init__
\* (indexing.py:90-92), FuzzyIndex.__init__ (indexing.py:141-143).
InitIndex ==
    /\ \/ index_kind = "FuzzyIndex" /\ case_sensitive = TRUE
       \/ index_kind = "SubstringIndex" /\ case_sensitive \in BOOLEAN
    /\ IndexEmpty
    /\ NoSearch
    /\ RangesIdle
    /\ SessionIdle
    /\ CmpIdle
    /\ GenIdle
    /\ TermIdle
    /\ TplIdle
    /\ RawIdle
    /\ ScoreIdle
    /\ DrawIdle
    /\ DumbIdle

\* _add_token_for_item that skips an item the list of the token already
\* holds.
AddTokenForItemOnce(token, item, pt, ph) ==
    LET tok == StoredToken(index_kind, case_sensitive, token)
        old == IF tok \in DOMAIN tokens_to_items THEN tokens_to_items[tok] ELSE <<>>
    IN /\ tokens_to_items' =
              DictPut(tokens_to_items, tok,
                      IF item \in SeqRange(old) THEN old ELSE Append(old, item))
       /\ token_order' = IF tok \in SeqRange(token_order) THEN token_order
                         ELSE InsertAt(token_order, pt, tok)
       /\ hash_order' = IF item \in SeqRange(hash_order) THEN hash_order
                        ELSE InsertAt(hash_order, ph, item)
       /\ added' = added \cup {<<item, token>>}

\* _add_token_for_item (indexing.py:65-68, 94-97, 145-146) for one token:
\* the token is appended to; a token or an item that is new to its
\* dictionary gets a place pt, ph in that dictionary's iteration order.
AddTokenForItem(token, item, pt, ph) ==
    LET tok == StoredToken(index_kind, case_sensitive, token)
        old == IF tok \in DOMAIN tokens_to_items THEN tokens_to_items[tok] ELSE <<>>
    IN /\ tokens_to_items' = DictPut(tokens_to_items, tok, Append(old, item))
       /\ token_order' = IF tok \in SeqRange(token_order) THEN token_order
                         ELSE InsertAt(token_order, pt, tok)
       /\ hash_order' = IF item \in SeqRange(hash_order) THEN hash_order
                        ELSE InsertAt(hash_order, ph, item)
       /\ added' = added \cup {<<item, token>>}

\* IndexBase.add(item) with the default tokenizer (indexing.py:52-63).
Add ==
    /\ num_adds < MaxAdds
    /\ \E item \in Words :
       \E pt \in 1..(Len(token_order) + 1), ph \in 1..(Len(hash_order) + 1) :
           AddTokenForItem(list_packer(item)[1], item, pt, ph)
    /\ num_adds' = num_adds + 1
    /\ ForgetSearch
    /\ UNCHANGED <<index_kind, case_sensitive, outsideIndex>>

\* IndexBase.add(item, tokenizer) with a tokenizer that yields one token of
\* its own for the item (indexing.py:52-63).
AddWithTokenizer ==
    /\ num_adds < MaxAdds
    /\ \E item \in Names, token \in Words :
       \E pt \in 1..(Len(token_order) + 1), ph \in 1..(Len(hash_order) + 1) :
           AddTokenForItem(token, item, pt, ph)
    /\ num_adds' = num_adds + 1
    /\ ForgetSearch
    /\ UNCHANGED <<index_kind, case_sensitive, outsideIndex>>

\* index.search(query) (indexing.py:99-104, 255-258); the first search call
\* after the latest add() is the one recorded.
DoSearch ==
    /\ last_query = <<>>
    /\ \E query \in Queries :
           /\ last_query' = <<query>>
           /\ last_result' = Search(query).matches
           /\ last_error' = Search(query).raised
    /\ UNCHANGED <<idxVars, outsideIndex>>

\* The ranges a match can be created with: (start, end) with start <= end.
Ranges == {r \in (0..MaxPos) \X (0..MaxPos) : r[1] <= r[2]}
RangeLists == UNION {[1..n -> Ranges] : n \in 0..MaxRanges}

InitRanges ==
    /\ ranges0 \in RangeLists
    /\ substrings = ranges0
    /\ result = <<>>
    /\ changed = FALSE
    /\ canon_pc = "idle"
    /\ canon_calls = 0
    /\ IndexIdle
    /\ SessionIdle
    /\ CmpIdle
    /\ GenIdle
    /\ TermIdle
    /\ TplIdle
    /\ RawIdle
    /\ ScoreIdle
    /\ DrawIdle
    /\ DumbIdle

\* Match.canonicalize entering canonical_ranges (matches.py:28-31, 56-60).
CanonicalizeEnter ==
    /\ canon_pc = "idle"
    /\ canon_calls < MaxCanonCalls
    /\ IF Len(substrings) < 2
       THEN \* return ranges
            /\ canon_calls' = canon_calls + 1
            /\ UNCHANGED <<substrings, result, changed, canon_pc>>
       ELSE /\ result' = SortedPairs(substrings)
            /\ changed' = TRUE
            /\ canon_pc' = "loop"
            /\ UNCHANGED <<substrings, canon_calls>>
    /\ UNCHANGED <<ranges0, outsideRanges>>

\* One iteration of `while changed` (matches.py:61-78).
CanonicalizePass ==
    /\ canon_pc = "loop"
    /\ changed
    /\ IF Len(result) < 2
       THEN \* return result
            /\ substrings' = result
            /\ canon_pc' = "idle"
            /\ canon_calls' = canon_calls + 1
            /\ UNCHANGED <<result, changed>>
       ELSE /\ result' = MergePass(result).next
            /\ changed' = MergePass(result).changed
            /\ UNCHANGED <<substrings, canon_pc, canon_calls>>
    /\ UNCHANGED <<ranges0, outsideRanges>>

\* The while loop ends and canonical_ranges returns (matches.py:61, 80).
CanonicalizeReturn ==
    /\ canon_pc = "loop"
    /\ ~changed
    /\ substrings' = result
    /\ canon_pc' = "idle"
    /\ canon_calls' = canon_calls + 1
    /\ UNCHANGED <<ranges0, result, changed, outsideRanges>>

NextRanges == CanonicalizeEnter \/ CanonicalizePass \/ CanonicalizeReturn

(***************************************************************************)
(* SmartTerminalUI (ui.py:141-319): the interactive session.               *)
(***************************************************************************)
\* TerminalUI.hit_list_limit (ui.py:81).
hit_list_limit == 9

\* The characters the user types into the query.
TypedChars == QueryChars \cup {" "}

\* The characters of the initial query given to choose_item.
SeedChars == {"a"}

\* num_visible_matches (ui.py:212-215).
NumVisibleMatches(matches) == Min2(Len(matches), hit_list_limit)

\* _show_matches (ui.py:303-319): MatchRenderer.render (renderers.py:46-47)
\* canonicalizes every match it draws.
ShowMatches(matches) ==
    [i \in 1..Len(matches) |->
        IF i <= hit_list_limit
        THEN [matches[i] EXCEPT !.substrings = canonical_ranges(@)]
        ELSE matches[i]]

\* _fix_selected_index (ui.py:293-301): the new _selected_index.
FixSelectedIndex(matches, sel) ==
    IF matches = <<>> THEN None
    ELSE IF sel # None
    THEN Some(Max2(0, Min2(sel[1], NumVisibleMatches(matches))))
    ELSE sel

\* refresh (ui.py:231-261) with _query = q and _selected_index = sel: the
\* exception index.search raised, or the new _best_matches and
\* _selected_index.
Refresh(q, sel) ==
    CHOOSE r \in
        {IF found.raised # ""
         THEN [raised |-> found.raised, matches |-> best_matches, sel |-> sel]
         ELSE [raised |-> "",
               matches |-> ShowMatches(found.matches),
               sel |-> FixSelectedIndex(
                           found.matches,
                           IF found.matches # <<>> /\ sel = None THEN Some(0)
                           ELSE sel)] :
            found \in {Search(q)}} : TRUE

\* An exception leaves choose_item.
Raise(name) ==
    /\ ui_pc' = "raised"
    /\ ui_error' = name

\* The query setter (ui.py:222-229); choose_item then waits for a key.
\* refresh calls index.search once (ui.py:244).
SetQuery(value) ==
    IF value = _query
    THEN /\ ui_pc' = "getch"
         /\ searches' = 0
         /\ UNCHANGED <<_query, best_matches, selected_index, ui_error>>
    ELSE /\ _query' = value
         /\ searches' = 1
         /\ \E r \in {Refresh(value, selected_index)} :
            IF r.raised # ""
            THEN /\ Raise(r.raised)
                 /\ UNCHANGED <<best_matches, selected_index>>
            ELSE /\ best_matches' = r.matches
                 /\ selected_index' = r.sel
                 /\ ui_pc' = "getch"
                 /\ UNCHANGED ui_error

\* The selected_index setter (ui.py:276-283).
SetSelectedIndex(value) ==
    IF selected_index = Some(value)
    THEN /\ searches' = 0
         /\ UNCHANGED <<best_matches, selected_index, ui_pc, ui_error>>
    ELSE \E fixed \in {FixSelectedIndex(best_matches, Some(value))} :
         \E r \in {Refresh(_query, fixed)} :
            /\ searches' = 1
            /\ IF r.raised # ""
               THEN /\ Raise(r.raised)
                    /\ selected_index' = fixed
                    /\ UNCHANGED best_matches
               ELSE /\ best_matches' = r.matches
                    /\ selected_index' = r.sel
                    /\ UNCHANGED <<ui_pc, ui_error>>

\* adjust_selected_index_by(offset, wrap=False) (ui.py:199-210): the
\* modulus is skipped.
AdjustSelectedIndexByNoWrap(offset) ==
    IF selected_index = None
    THEN /\ Raise("TypeError")
         /\ searches' = 0
         /\ UNCHANGED <<best_matches, selected_index>>
    ELSE SetSelectedIndex(selected_index[1] + offset)

\* adjust_selected_index_by(offset) with wrap=True (ui.py:199-210):
\* int(None) raises TypeError, a modulus of 0 raises ZeroDivisionError.
AdjustSelectedIndexBy(offset) ==
    IF selected_index = None
    THEN /\ Raise("TypeError")
         /\ searches' = 0
         /\ UNCHANGED <<best_matches, selected_index>>
    ELSE IF NumVisibleMatches(best_matches) = 0
    THEN /\ Raise("ZeroDivisionError")
         /\ searches' = 0
         /\ UNCHANGED <<best_matches, selected_index>>
    ELSE SetSelectedIndex(
             (selected_index[1] + offset) % NumVisibleMatches(best_matches))

\* Keycodes.UP, LEFT, RIGHT and DOWN (terminal.py:105-108): four objects
\* that are not strings, which Terminal.getch returns for the bursts of the
\* cursor keys (terminal.py:278-288).
CursorKeys == {"Keycodes.UP", "Keycodes.LEFT", "Keycodes.RIGHT", "Keycodes.DOWN"}

\* is_printable(string) (utils.py:41-49) on a value getch returns: "True" or
\* "False" for a string, and TypeError for an object() that is neither
\* unicode nor iterable.
IsPrintable(value) ==
    IF value \in CursorKeys THEN "TypeError"
    ELSE IF value \in TypedChars THEN "True"
    ELSE "False"

\* Keycodes.BREAK and Keycodes.EOF (terminal.py:90-91): the bytes 0x03 and
\* 0x04.
BREAK == "\\x03"
EOF == "\\x04"

\* A getch that raises on BREAK only.
GetchRaisesOnBreakOnly(raw) ==
    IF raw = BREAK THEN "KeyboardInterrupt" ELSE ""

\* The exception Terminal.getch raises on a burst (terminal.py:266-272):
\* KeyboardInterrupt on BREAK, EOFError on EOF, none ("") otherwise.
GetchRaises(raw) ==
    IF raw = BREAK THEN "KeyboardInterrupt"
    ELSE IF raw = EOF THEN "EOFError"
    ELSE ""

\* re.sub("[^ ]* *$", "", query) (ui.py:177): the query without its trailing
\* spaces (spaces = TRUE) and then without the run of non-space characters
\* before them (spaces = FALSE).
RECURSIVE StripTrailing(_, _)
StripTrailing(q, spaces) ==
    IF q # <<>> /\ ((q[Len(q)] = " ") <=> spaces)
    THEN StripTrailing(SubSeq(q, 1, Len(q) - 1), spaces)
    ELSE q

DeleteLastWord(q) == StripTrailing(StripTrailing(q, TRUE), FALSE)

\* s without the repetitions of its elements.
RECURSIVE Distinct(_)
Distinct(s) ==
    IF s = <<>> THEN <<>>
    ELSE CHOOSE r \in
             {IF s[Len(s)] \in SeqRange(d) THEN d ELSE Append(d, s[Len(s)]) :
                 d \in {Distinct(init) : init \in {SubSeq(s, 1, Len(s) - 1)}}} : TRUE

Reverse(s) == [i \in 1..Len(s) |-> s[Len(s) + 1 - i]]

\* The elements of s at the positions in P, in order.
RECURSIVE AtPositions(_, _, _)
AtPositions(s, P, i) ==
    IF i > Len(s) THEN <<>>
    ELSE (IF i \in P THEN <<s[i]>> ELSE <<>>) \o AtPositions(s, P, i + 1)

\* The index after add(item) for each item of `catalog` with the default
\* tokenizer (indexing.py:52-68); rev picks one of two iteration orders of
\* its dictionaries.
IndexHolds(catalog, rev) ==
    LET stored == [i \in 1..Len(catalog) |->
                      StoredToken(index_kind, case_sensitive,
                                  list_packer(catalog[i])[1])]
        keys == Distinct(stored)
        items == Distinct(catalog)
    IN /\ tokens_to_items =
              [tok \in SeqRange(stored) |->
                  AtPositions(catalog, {j \in 1..Len(catalog) : stored[j] = tok}, 1)]
       /\ token_order = IF rev THEN Reverse(keys) ELSE keys
       /\ hash_order = IF rev THEN Reverse(items) ELSE items
       /\ added = {<<catalog[i], list_packer(catalog[i])[1]>> : i \in 1..Len(catalog)}
       /\ num_adds = Len(catalog)

\* The strings of a set in ascending order.
RECURSIVE Ascending(_)
Ascending(S) ==
    IF S = {} THEN <<>>
    ELSE LET least == CHOOSE x \in S : \A y \in S \ {x} : StrLess(x, y)
         IN <<least>> \o Ascending(S \ {least})

\* The candidate lists a session is run on: no item, two items, every item.
SessionCatalogs ==
    {<<>>, SubSeq(Ascending(Words), 1, 2), Ascending(Words)}

\* The state after SmartTerminalUI.__init__ (ui.py:146-153: reset() draws
\* the UI while there is no index yet, hence no matches) and UI.setup
\* (ui.py:26-33) with an index built from a candidate list.
InitSession ==
    /\ index_kind \in {"FuzzyIndex", "SubstringIndex"}
    /\ case_sensitive \in BOOLEAN
    /\ index_kind = "FuzzyIndex" => case_sensitive
    /\ \E catalog \in SessionCatalogs, rev \in BOOLEAN : IndexHolds(catalog, rev)
    /\ NoSearch
    /\ _query = <<>>
    /\ best_matches = <<>>
    /\ selected_index = None
    /\ ui_shown = TRUE
    /\ ui_pc = "start"
    /\ initial_query = None
    /\ char = NoKey
    /\ retval = None
    /\ ui_error = ""
    /\ searches = 0
    /\ RangesIdle
    /\ CmpIdle
    /\ GenIdle
    /\ TermIdle
    /\ TplIdle
    /\ RawIdle
    /\ ScoreIdle
    /\ DrawIdle
    /\ DumbIdle

\* choose_item(initial_query) up to its first getch (ui.py:155-160).
ChooseItem ==
    /\ ui_pc = "start"
    /\ \E seed \in {None} \cup {Some(s) : s \in StringsUpTo(MaxSeedLen, SeedChars)} :
           /\ initial_query' = seed
           /\ SetQuery(IF seed = None \/ seed = Some(<<>>) THEN <<>> ELSE seed[1])
    /\ UNCHANGED <<ui_shown, char, retval, outsideSession>>

\* getch delivers Enter, Ctrl-M or Ctrl-J: return self.selected_item
\* (ui.py:166-167, 285-291).
KeyEnter ==
    /\ ui_pc = "getch"
    /\ char' = "enter"
    /\ searches' = 0
    /\ IF selected_index = None \/ selected_index[1] < 0
       THEN /\ ui_pc' = "returned"
            /\ retval' = None
            /\ UNCHANGED ui_error
       ELSE IF selected_index[1] >= Len(best_matches)
       THEN /\ Raise("IndexError")
            /\ UNCHANGED retval
       ELSE /\ ui_pc' = "returned"
            /\ retval' = Some(best_matches[selected_index[1] + 1])
            /\ UNCHANGED ui_error
    /\ UNCHANGED <<_query, best_matches, selected_index, ui_shown, initial_query,
                   outsideSession>>

\* getch delivers Backspace or Ctrl-H (ui.py:168-169).
KeyBackspace ==
    /\ ui_pc = "getch"
    /\ char' = "backspace"
    /\ SetQuery(SubSeq(_query, 1, Len(_query) - 1))
    /\ UNCHANGED <<ui_shown, initial_query, retval, outsideSession>>

\* getch delivers Ctrl-N (ui.py:170-171).
KeyCtrlN ==
    /\ ui_pc = "getch"
    /\ char' = "ctrl_n"
    /\ AdjustSelectedIndexBy(1)
    /\ UNCHANGED <<_query, ui_shown, initial_query, retval, outsideSession>>

\* getch delivers Ctrl-P (ui.py:172-173).
KeyCtrlP ==
    /\ ui_pc = "getch"
    /\ char' = "ctrl_p"
    /\ AdjustSelectedIndexBy(-1)
    /\ UNCHANGED <<_query, ui_shown, initial_query, retval, outsideSession>>

\* getch delivers Ctrl-U (ui.py:174-175).
KeyCtrlU ==
    /\ ui_pc = "getch"
    /\ char' = "ctrl_u"
    /\ SetQuery(<<>>)
    /\ UNCHANGED <<ui_shown, initial_query, retval, outsideSession>>

\* getch delivers Ctrl-W (ui.py:176-177).
KeyCtrlW ==
    /\ ui_pc = "getch"
    /\ char' = "ctrl_w"
    /\ SetQuery(DeleteLastWord(_query))
    /\ UNCHANGED <<ui_shown, initial_query, retval, outsideSession>>

\* getch delivers a printable character (ui.py:178-179).
KeyPrintable ==
    /\ ui_pc = "getch"
    /\ Len(_query) < MaxTyped
    /\ \E c \in TypedChars :
           /\ char' = c
           /\ SetQuery(Append(_query, c))
    /\ UNCHANGED <<ui_shown, initial_query, retval, outsideSession>>

\* getch delivers a control character no branch handles, such as Escape:
\* "Unhandled char" is printed (ui.py:180-181).
KeyUnhandled ==
    /\ ui_pc = "getch"
    /\ char' = "unhandled"
    /\ searches' = 0
    /\ UNCHANGED <<_query, best_matches, selected_index, ui_shown, ui_pc,
                   initial_query, retval, ui_error, outsideSession>>

\* getch delivers Keycodes.UP, DOWN, LEFT or RIGHT: no branch before
\* is_printable takes the key, and is_printable raises on it
\* (ui.py:166-181).
KeyCursor ==
    /\ ui_pc = "getch"
    /\ searches' = 0
    /\ \E key \in CursorKeys :
           /\ char' = key
           /\ IF IsPrintable(key) = "TypeError"
              THEN Raise("TypeError")
              ELSE UNCHANGED <<ui_pc, ui_error>>
    /\ UNCHANGED <<_query, best_matches, selected_index, ui_shown, initial_query,
                   retval, outsideSession>>

\* What choose_item does with the outcome of terminal.getch() on a burst
\* that is a single control byte (ui.py:158-164, 180-181): an exception of
\* getch makes it return None, and no branch handles a control byte that
\* getch returns.
KeyControlByte(raw) ==
    /\ ui_pc = "getch"
    /\ char' = raw
    /\ searches' = 0
    /\ IF GetchRaises(raw) # ""
       THEN /\ ui_pc' = "returned"
            /\ retval' = None
       ELSE UNCHANGED <<ui_pc, retval>>
    /\ UNCHANGED <<_query, best_matches, selected_index, ui_shown, initial_query,
                   ui_error, outsideSession>>

\* The burst is Ctrl-C: getch raises KeyboardInterrupt (ui.py:161-162).
KeyInterrupt == KeyControlByte(BREAK)

\* The burst is Ctrl-D: getch raises EOFError (ui.py:163-164).
KeyEOF == KeyControlByte(EOF)

Next ==
    \/ ChooseItem
    \/ KeyEnter
    \/ KeyBackspace
    \/ KeyCtrlN
    \/ KeyCtrlP
    \/ KeyCtrlU
    \/ KeyCtrlW
    \/ KeyPrintable
    \/ KeyUnhandled
    \/ KeyCursor
    \/ KeyInterrupt
    \/ KeyEOF

Spec == InitSession /\ [][Next]_vars

NextIndex == Add \/ AddWithTokenizer \/ DoSearch

SpecIndex == InitIndex /\ [][NextIndex]_vars

SpecRanges == InitRanges /\ [][NextRanges]_vars
\* canonical_ranges runs to completion once called: nothing else is scheduled.
FairSpecRanges == SpecRanges /\ WF_vars(NextRanges)

(***************************************************************************)
(* Match.__lt__ (matches.py:24-26) applied to Match objects with bounded   *)
(* scores and strings.                                                     *)
(***************************************************************************)
MaxScore == 2

\* The Match objects compared: the two attributes __lt__ reads
\* (matches.py:18-22).
Matches == [score : 0..MaxScore, matched_string : StringsUpTo(MaxNameLen, Chars)]

\* Match.__lt__ (matches.py:24-26).
MatchLess(self, other) ==
    \/ self.score < other.score
    \/ StrLess(self.matched_string, other.matched_string)

InitMatch ==
    /\ cmp_a \in Matches
    /\ cmp_b \in Matches
    /\ cmp_c \in Matches
    /\ cmp_lt = <<>>
    /\ IndexIdle
    /\ RangesIdle
    /\ SessionIdle
    /\ GenIdle
    /\ TermIdle
    /\ TplIdle
    /\ RawIdle
    /\ ScoreIdle
    /\ DrawIdle
    /\ DumbIdle

\* a < b, b < a, b < c and a < c are evaluated.
Compare ==
    /\ cmp_lt = <<>>
    /\ cmp_lt' = [ab |-> MatchLess(cmp_a, cmp_b),
                  ba |-> MatchLess(cmp_b, cmp_a),
                  bc |-> MatchLess(cmp_b, cmp_c),
                  ac |-> MatchLess(cmp_a, cmp_c)]
    /\ UNCHANGED <<cmp_a, cmp_b, cmp_c, outsideMatch>>

NextMatch == Compare

SpecMatch == InitMatch /\ [][NextMatch]_vars

(***************************************************************************)
(* each_index_of_string (utils.py:9-25) as the generator it is: one step   *)
(* per iteration of its loop.                                              *)
(***************************************************************************)
\* A find that resumes after the end of the latest occurrence.
FindNextPastMatch(string, corpus, start) ==
    Find(corpus, string, IF start < 0 THEN 0 ELSE start + Max2(1, Len(string)))

\* corpus.find(string, start+1) (utils.py:22).
FindNext(string, corpus, start) == Find(corpus, string, start + 1)

\* each_index_of_string(string, corpus) is called: start = -1 (utils.py:20).
InitEachIndex ==
    /\ gen_string \in StringsUpTo(MaxLen, Chars)
    /\ gen_corpus \in StringsUpTo(MaxLen, Chars)
    /\ gen_start = -1
    /\ gen_yielded = <<>>
    /\ gen_pc = "running"
    /\ IndexIdle
    /\ RangesIdle
    /\ SessionIdle
    /\ CmpIdle
    /\ TermIdle
    /\ TplIdle
    /\ RawIdle
    /\ ScoreIdle
    /\ DrawIdle
    /\ DumbIdle

\* An iteration that finds an occurrence yields it (utils.py:22-25).
EachIndexYield ==
    /\ gen_pc = "running"
    /\ \E next \in {FindNext(gen_string, gen_corpus, gen_start)} :
           /\ next >= 0
           /\ gen_start' = next
           /\ gen_yielded' = Append(gen_yielded, next)
    /\ UNCHANGED <<gen_string, gen_corpus, gen_pc, outsideEachIndex>>

\* An iteration that finds none ends the generator (utils.py:22-24).
EachIndexReturn ==
    /\ gen_pc = "running"
    /\ \E next \in {FindNext(gen_string, gen_corpus, gen_start)} :
           /\ next < 0
           /\ gen_start' = next
           /\ gen_pc' = "done"
    /\ UNCHANGED <<gen_string, gen_corpus, gen_yielded, outsideEachIndex>>

NextEachIndex == EachIndexYield \/ EachIndexReturn

SpecEachIndex == InitEachIndex /\ [][NextEachIndex]_vars
\* The consumer (list(), a for loop) resumes the generator until it returns.
FairSpecEachIndex == SpecEachIndex /\ WF_vars(NextEachIndex)

(***************************************************************************)
(* Terminal, CursesTerminal, ANSITerminal and DumbTerminal                 *)
(* (terminal.py:123-646).  A token name is a string like any other: the    *)
(* sequence of its characters.                                             *)
(***************************************************************************)
UP == <<"U", "P">>
DOWN == <<"D", "O", "W", "N">>
LEFT == <<"L", "E", "F", "T">>
RIGHT == <<"R", "I", "G", "H", "T">>
NORMAL == <<"N", "O", "R", "M", "A", "L">>
BG_YELLOW == <<"B", "G", "_", "Y", "E", "L", "L", "O", "W">>

\* Terminal._COLORS (terminal.py:142).
_COLORS ==
    {<<"B", "L", "A", "C", "K">>,
     <<"B", "L", "U", "E">>,
     <<"G", "R", "E", "E", "N">>,
     <<"C", "Y", "A", "N">>,
     <<"R", "E", "D">>,
     <<"M", "A", "G", "E", "N", "T", "A">>,
     <<"Y", "E", "L", "L", "O", "W">>,
     <<"W", "H", "I", "T", "E">>}

\* The tokens _create_empty_control_sequences lists first
\* (terminal.py:437-439).
StyleAndCursorTokens ==
    {<<"B", "L", "I", "N", "K">>,
     <<"B", "O", "L", "D">>,
     <<"D", "I", "M">>,
     <<"N", "O", "R", "M", "A", "L">>,
     <<"R", "E", "V", "E", "R", "S", "E">>,
     <<"U", "N", "D", "E", "R", "L", "I", "N", "E">>,
     <<"U", "P">>,
     <<"D", "O", "W", "N">>,
     <<"L", "E", "F", "T">>,
     <<"R", "I", "G", "H", "T">>,
     <<"B", "O", "L">>,
     <<"E", "O", "L">>,
     <<"C", "L", "E", "A", "R", "_", "B", "O", "L">>,
     <<"C", "L", "E", "A", "R", "_", "E", "O", "L">>,
     <<"C", "L", "E", "A", "R", "_", "E", "O", "S">>,
     <<"C", "L", "E", "A", "R", "_", "S", "C", "R", "E", "E", "N">>,
     <<"H", "I", "D", "E", "_", "C", "U", "R", "S", "O", "R">>,
     <<"S", "H", "O", "W", "_", "C", "U", "R", "S", "O", "R">>}

\* "FG_{0}".format(color) and "BG_{0}".format(color).
WithPrefix(prefix, names) == {prefix \o name : name \in names}

\* The keys of the table of control sequences (terminal.py:437-442).
ControlTokens ==
    StyleAndCursorTokens \cup _COLORS \cup WithPrefix(<<"F", "G", "_">>, _COLORS)
        \cup WithPrefix(<<"B", "G", "_">>, _COLORS)

CursorTokens == {UP, DOWN, LEFT, RIGHT}

\* A table of empty control sequences that leaves out the background
\* colours.
ControlSequencesWithoutBackground ==
    [key \in ControlTokens \ WithPrefix(<<"B", "G", "_">>, _COLORS) |-> <<>>]

\* _create_empty_control_sequences (terminal.py:434-443): every token is
\* mapped to the empty string.
CreateEmptyControlSequences == [key \in ControlTokens |-> <<>>]

\* The burst of the cursor-down key that Terminal.getch knows by name
\* (terminal.py:279), and the line feed.
ANSIDownKey == <<"\\x1b", "[", "B">>
LineFeed == <<"\\n">>

\* The strings terminfo may have for cud1: xterm has the line feed, other
\* entries the escape sequence.
DownCapabilities == {LineFeed, ANSIDownKey}

\* A non-empty control sequence for a token; it stands for the escape
\* sequence a backend has for it.
EscapeSequence(token) == <<"\\x1b", "[">> \o token

\* The table after ANSITerminal.init (terminal.py:600-637): every token but
\* EOL and the colours without a prefix gets a sequence.
ANSIControlSequences ==
    [key \in ControlTokens |->
        IF key \in _COLORS \cup {<<"E", "O", "L">>} THEN <<>> ELSE EscapeSequence(key)]

\* The table after CursesTerminal.init (terminal.py:475-486, 522-568): the
\* capability strings of terminfo, the empty string where it has none.  The
\* database is an input; here it may lack any of the cursor capabilities,
\* and its cud1 string (terminal.py:525) is a line feed or an escape sequence.
CursesControlSequences(capabilities) ==
    [key \in ControlTokens |->
        IF key = <<"E", "O", "L">> \/ (key \in CursorTokens /\ key \notin capabilities)
        THEN <<>>
        ELSE IF key = DOWN THEN cud1
        ELSE EscapeSequence(key)]

\* The three values of the is_tty argument: None, True and False.
IsTtyArguments == {None, <<TRUE>>, <<FALSE>>}

\* Terminal.__init__ (terminal.py:201-204): _is_tty from the argument, or
\* from stream.isatty() when the argument is None.
IsTty(declared, isatty) == IF declared # None THEN declared[1] ELSE isatty

\* A supported getter that leaves out the `if not self._is_tty` test.
SupportedWhateverTheStream(class, tty) ==
    IF class = "CursesTerminal" THEN has_curses
    ELSE IF class = "ANSITerminal" THEN has_colorama
    ELSE TRUE

\* The `supported` getters (terminal.py:465-473, 583-591, 644-646).
Supported(class, tty) ==
    IF class = "CursesTerminal" THEN tty /\ has_curses
    ELSE IF class = "ANSITerminal" THEN tty /\ has_colorama
    ELSE TRUE

\* The list Terminal.create probes (terminal.py:173).
subclasses == <<"CursesTerminal", "ANSITerminal", "DumbTerminal">>

\* The loop of Terminal.create (terminal.py:174-179) over the classes left:
\* the first that is supported, "" when NotSupportedError is raised.
RECURSIVE FirstSupported(_, _)
FirstSupported(classes, tty) ==
    IF classes = <<>> THEN ""
    ELSE IF Supported(Head(classes), tty) THEN Head(classes)
    ELSE FirstSupported(Tail(classes), tty)

\* all(self._control_sequences.get(token) for token in tokens) for one
\* token only.
SupportsSome(table, tokens) ==
    \E token \in tokens : token \in DOMAIN table /\ table[token] # <<>>

\* Terminal.supports(*tokens) (terminal.py:408-412) on a table.
Supports(table, tokens) ==
    \A token \in tokens : token \in DOMAIN table /\ table[token] # <<>>

\* deinit() that keeps the table of control sequences.
DeinitKeepingTable ==
    IF ~_initialized
    THEN [raised |-> "TerminalInitError", tty |-> _is_tty,
          initialized |-> _initialized, table |-> _control_sequences,
          hook |-> _deinit_hook]
    ELSE [raised |-> "", tty |-> FALSE, initialized |-> FALSE,
          table |-> _control_sequences, hook |-> ""]

\* Terminal.deinit (terminal.py:222-240): the exception raised and the
\* fields of the terminal afterwards.
Deinit ==
    IF ~_initialized
    THEN [raised |-> "TerminalInitError", tty |-> _is_tty,
          initialized |-> _initialized, table |-> _control_sequences,
          hook |-> _deinit_hook]
    ELSE [raised |-> "", tty |-> FALSE, initialized |-> FALSE,
          table |-> None, hook |-> ""]

\* Terminal.init and its overrides (terminal.py:206-220, 475-486, 593-637):
\* the exception raised and the fields afterwards.  setupterm is TRUE unless
\* curses.setupterm raises, which it does after the base class has marked
\* the terminal as initialized.
Initialize(setupterm) ==
    IF _initialized
    THEN [raised |-> "TerminalInitError", initialized |-> _initialized,
          table |-> _control_sequences, hook |-> _deinit_hook]
    ELSE IF term_class = "CursesTerminal"
    THEN IF setupterm
         THEN [raised |-> "", initialized |-> TRUE,
               table |-> CursesControlSequences(terminfo), hook |-> ""]
         ELSE [raised |-> "curses.error", initialized |-> TRUE,
               table |-> CreateEmptyControlSequences, hook |-> ""]
    ELSE IF term_class = "ANSITerminal"
    THEN [raised |-> "", initialized |-> TRUE,
          table |-> ANSIControlSequences, hook |-> "colorama.deinit"]
    ELSE [raised |-> "", initialized |-> TRUE,
          table |-> CreateEmptyControlSequences, hook |-> ""]

\* __exit__ calls deinit() only when the body raised nothing.
ExitDeinitsUnlessRaised(how) == how # "exception"

\* Terminal.__exit__ (terminal.py:431-432) calls deinit() whatever the way
\* the body was left, and returns None: an exception of the body goes on.
ExitDeinits(how) == TRUE

\* The ways a with-block is left.
BodyExits == {"normal", "return", "exception"}

\* The platform and the stream before a terminal is created.
InitTerminal ==
    /\ has_curses \in BOOLEAN
    /\ has_colorama \in BOOLEAN
    /\ stream_isatty \in BOOLEAN
    /\ terminfo \in SUBSET CursorTokens
    /\ cud1 \in IF has_curses /\ DOWN \in terminfo THEN DownCapabilities ELSE {<<>>}
    /\ term_result = None
    /\ term_class = ""
    /\ is_tty = None
    /\ _is_tty = FALSE
    /\ _initialized = FALSE
    /\ _control_sequences = None
    /\ _deinit_hook = ""
    /\ term_call = ""
    /\ term_error = ""
    /\ stream_out = 0
    /\ with_pc = "outside"
    /\ body_exit = ""
    /\ deinit_calls = 0
    /\ IndexIdle
    /\ RangesIdle
    /\ SessionIdle
    /\ CmpIdle
    /\ GenIdle
    /\ TplIdle
    /\ RawIdle
    /\ ScoreIdle
    /\ DrawIdle
    /\ DumbIdle

\* Terminal.create(stream, is_tty) (terminal.py:144-179).
TermCreate ==
    /\ term_class = ""
    /\ term_call' = "create"
    /\ \E declared \in IsTtyArguments :
       \E class \in {FirstSupported(subclasses, IsTty(declared, stream_isatty))} :
           /\ is_tty' = declared
           /\ term_class' = class
           /\ _is_tty' = IsTty(declared, stream_isatty)
           /\ term_error' = IF class = "" THEN "NotSupportedError" ELSE ""
    /\ term_result' = None
    /\ UNCHANGED <<has_curses, has_colorama, stream_isatty, terminfo, cud1,
                   _initialized,
                   _control_sequences, _deinit_hook, stream_out, with_pc,
                   body_exit, deinit_calls, outsideTerminal>>

\* terminal.init() called outside a with-block.
TermInit ==
    /\ term_class # ""
    /\ with_pc # "body"
    /\ term_call' = "init"
    /\ \E setupterm \in BOOLEAN :
       \E r \in {Initialize(setupterm)} :
           /\ term_error' = r.raised
           /\ _initialized' = r.initialized
           /\ _control_sequences' = r.table
           /\ _deinit_hook' = r.hook
    /\ term_result' = None
    /\ UNCHANGED <<has_curses, has_colorama, stream_isatty, terminfo, cud1,
                   term_class,
                   is_tty, _is_tty, stream_out, with_pc, body_exit, deinit_calls,
                   outsideTerminal>>

\* terminal.deinit() called outside a with-block.
TermDeinit ==
    /\ term_class # ""
    /\ with_pc # "body"
    /\ term_call' = "deinit"
    /\ \E r \in {Deinit} :
           /\ term_error' = r.raised
           /\ _is_tty' = r.tty
           /\ _initialized' = r.initialized
           /\ _control_sequences' = r.table
           /\ _deinit_hook' = r.hook
    /\ term_result' = None
    /\ UNCHANGED <<has_curses, has_colorama, stream_isatty, terminfo, cud1,
                   term_class,
                   is_tty, stream_out, with_pc, body_exit, deinit_calls,
                   outsideTerminal>>

\* `with terminal:` is reached: __enter__ calls init() (terminal.py:427-429);
\* the body is entered unless init() raises.
WithEnter ==
    /\ term_class # ""
    /\ with_pc # "body"
    /\ term_call' = "__enter__"
    /\ body_exit' = ""
    /\ deinit_calls' = 0
    /\ \E setupterm \in BOOLEAN :
       \E r \in {Initialize(setupterm)} :
           /\ term_error' = r.raised
           /\ _initialized' = r.initialized
           /\ _control_sequences' = r.table
           /\ _deinit_hook' = r.hook
           /\ with_pc' = IF r.raised = "" THEN "body" ELSE "outside"
    /\ term_result' = None
    /\ UNCHANGED <<has_curses, has_colorama, stream_isatty, terminfo, cud1,
                   term_class,
                   is_tty, _is_tty, stream_out, outsideTerminal>>

\* The body of the with-block is left, normally, by a return or by an
\* exception, and __exit__ runs (terminal.py:431-432).
WithLeave ==
    /\ with_pc = "body"
    /\ term_call' = "__exit__"
    /\ with_pc' = "after"
    /\ \E how \in BodyExits :
           /\ body_exit' = how
           /\ IF ExitDeinits(how)
              THEN \E r \in {Deinit} :
                       /\ deinit_calls' = deinit_calls + 1
                       /\ term_error' = IF r.raised # "" THEN r.raised
                                        ELSE IF how = "exception" THEN "BodyError"
                                        ELSE ""
                       /\ _is_tty' = r.tty
                       /\ _initialized' = r.initialized
                       /\ _control_sequences' = r.table
                       /\ _deinit_hook' = r.hook
              ELSE /\ term_error' = IF how = "exception" THEN "BodyError" ELSE ""
                   /\ UNCHANGED <<deinit_calls, _is_tty, _initialized,
                                  _control_sequences, _deinit_hook>>
    /\ term_result' = None
    /\ UNCHANGED <<has_curses, has_colorama, stream_isatty, terminfo, cud1,
                   term_class,
                   is_tty, stream_out, outsideTerminal>>

\* SmartTerminalUI(terminal) (ui.py:146-153): NotSupportedError unless the
\* terminal supports the four cursor tokens; otherwise reset() draws the UI
\* on the terminal.  Without a table, supports() raises AttributeError.
ConstructSmartTerminalUI ==
    /\ term_class # ""
    /\ stream_out < MaxDrawings
    /\ term_call' = "SmartTerminalUI"
    /\ IF _control_sequences = None
       THEN /\ term_error' = "AttributeError"
            /\ UNCHANGED stream_out
       ELSE IF ~Supports(_control_sequences, CursorTokens)
       THEN /\ term_error' = "NotSupportedError"
            /\ UNCHANGED stream_out
       ELSE /\ term_error' = ""
            /\ stream_out' = stream_out + 1
    /\ term_result' = None
    /\ UNCHANGED <<has_curses, has_colorama, stream_isatty, terminfo, cud1,
                   term_class,
                   is_tty, _is_tty, _initialized, _control_sequences, _deinit_hook,
                   with_pc, body_exit, deinit_calls, outsideTerminal>>

\* The bursts the raw getch() hands to Terminal.getch: BREAK, the line feed,
\* the burst of the cursor-down key, another escape burst, a letter, and the
\* sequences the backends have for the four cursor tokens.
GetchBursts ==
    {<<BREAK>>, LineFeed, ANSIDownKey, <<"\\x1b", "[", "Z">>, <<"a">>}
        \cup {EscapeSequence(token) : token \in CursorTokens}

\* Terminal.getch (terminal.py:252-297) on the burst the raw getch() read:
\* the exception it raises, or the Keycodes constant (key) or the string
\* (chars) it returns.  Decoding with the input encoding keeps the
\* characters of the burst (terminal.py:291-297).  Without a table the
\* lookups raise AttributeError.
TerminalGetch(burst, table) ==
    IF Len(burst) = 1 /\ GetchRaises(burst[1]) # ""
    THEN [raised |-> GetchRaises(burst[1]), key |-> "", chars |-> <<>>]
    ELSE IF burst = LineFeed
    THEN [raised |-> "", key |-> "", chars |-> burst]
    ELSE IF table = None
    THEN [raised |-> "AttributeError", key |-> "", chars |-> <<>>]
    ELSE IF burst = ANSIDownKey /\ table[DOWN] = LineFeed
    THEN [raised |-> "", key |-> "Keycodes.DOWN", chars |-> <<>>]
    ELSE IF burst = table[UP] THEN [raised |-> "", key |-> "Keycodes.UP", chars |-> <<>>]
    ELSE IF burst = table[LEFT] THEN [raised |-> "", key |-> "Keycodes.LEFT", chars |-> <<>>]
    ELSE IF burst = table[RIGHT] THEN [raised |-> "", key |-> "Keycodes.RIGHT", chars |-> <<>>]
    ELSE [raised |-> "", key |-> "", chars |-> burst]

\* The Terminal methods that draw or query: each reads the table.
TerminalOperations ==
    {"render", "supports", "write", "move_cursor", "clear_to_eol", "clear_to_eos",
     "hidden_cursor"}

\* A render that forgets the style it has just put out.
TableAfterForgetting(operation) ==
    IF operation = "render" /\ _control_sequences # None
    THEN [_control_sequences EXCEPT ![NORMAL] = <<>>]
    ELSE _control_sequences

\* The table after one of the drawing and querying methods and after getch
\* (terminal.py:242-425): they read it with .get or hand it to
\* safe_substitute, and none assigns to it or to an entry of it.
TableAfter(operation) == _control_sequences

\* terminal.getch() (terminal.py:252-297) on a burst.
TermGetch ==
    /\ term_class # ""
    /\ term_call' = "getch"
    /\ \E burst \in GetchBursts :
       \E r \in {TerminalGetch(burst, _control_sequences)} :
           /\ term_error' = r.raised
           /\ term_result' = IF r.raised # "" THEN None
                             ELSE Some([burst |-> burst, key |-> r.key, chars |-> r.chars])
    /\ _control_sequences' = TableAfter("getch")
    /\ UNCHANGED <<has_curses, has_colorama, stream_isatty, terminfo, cud1, term_class,
                   is_tty, _is_tty, _initialized, _deinit_hook, stream_out, with_pc,
                   body_exit, deinit_calls, outsideTerminal>>

\* One of the drawing and querying methods, called with a template that
\* holds a placeholder, with a token, or with a movement.  Without a table,
\* supports() raises AttributeError (terminal.py:411) and the others raise
\* the TypeError of safe_substitute(None) (terminal.py:395).
TermOperation ==
    /\ term_class # ""
    /\ \E operation \in TerminalOperations :
           /\ term_call' = operation
           /\ term_error' = IF _control_sequences # None THEN ""
                            ELSE IF operation = "supports" THEN "AttributeError"
                            ELSE "TypeError"
           /\ _control_sequences' = TableAfter(operation)
    /\ term_result' = None
    /\ UNCHANGED <<has_curses, has_colorama, stream_isatty, terminfo, cud1, term_class,
                   is_tty, _is_tty, _initialized, _deinit_hook, stream_out, with_pc,
                   body_exit, deinit_calls, outsideTerminal>>

NextTerminal ==
    \/ TermCreate
    \/ TermInit
    \/ TermDeinit
    \/ WithEnter
    \/ WithLeave
    \/ ConstructSmartTerminalUI
    \/ TermGetch
    \/ TermOperation

SpecTerminal == InitTerminal /\ [][NextTerminal]_vars

(***************************************************************************)
(* Terminal.render: string.Template(template).safe_substitute(table).      *)
(***************************************************************************)

\* The characters templates are drawn from: the delimiter, the braces,
\* the letters of the token UP and a space.
TemplateChars == {"$", "{", "}", "U", "P", " "}

\* The template MatchRenderer uses around a matched substring
\* (renderers.py:33-39), with the text it surrounds.
HighlightTemplate ==
    <<"$", "{">> \o BG_YELLOW \o <<"}", "t", "e", "x", "t", "$", "{">>
        \o NORMAL \o <<"}">>

\* The templates render is called with.
Templates == StringsUpTo(MaxTemplateLen, TemplateChars) \cup {HighlightTemplate}

\* [_a-z] under re.IGNORECASE: the first character of Template.idpattern.
IdentifierStart ==
    {"_", "a", "b", "c", "d", "e", "f", "g", "h", "i", "j", "k", "l", "m",
     "n", "o", "p", "q", "r", "s", "t", "u", "v", "w", "x", "y", "z",
     "A", "B", "C", "D", "E", "F", "G", "H", "I", "J", "K", "L", "M",
     "N", "O", "P", "Q", "R", "S", "T", "U", "V", "W", "X", "Y", "Z"}

\* [_a-z0-9] under re.IGNORECASE: the other characters of Template.idpattern.
IdentifierPart ==
    IdentifierStart \cup {"0", "1", "2", "3", "4", "5", "6", "7", "8", "9"}

\* The position after the longest run of identifier characters of template
\* that starts at position i (the greedy `[_a-z0-9]*`).
RECURSIVE IdentifierEnd(_, _)
IdentifierEnd(template, i) ==
    IF i <= Len(template) /\ template[i] \in IdentifierPart
    THEN IdentifierEnd(template, i + 1)
    ELSE i

\* An identifier starts at position i of template.
IdentifierAt(template, i) ==
    i <= Len(template) /\ template[i] \in IdentifierStart

\* Template.pattern matched at a delimiter at position i: the group that
\* matched (escaped, named, braced or invalid, tried in this order), the
\* identifier, and the position after the match.
MatchAt(template, i) ==
    IF i + 1 <= Len(template) /\ template[i + 1] = "$"
    THEN [group |-> "escaped", text |-> <<>>, end |-> i + 2]
    ELSE IF IdentifierAt(template, i + 1)
    THEN [group |-> "named",
          text |-> SubSeq(template, i + 1, IdentifierEnd(template, i + 1) - 1),
          end |-> IdentifierEnd(template, i + 1)]
    ELSE IF /\ i + 1 <= Len(template)
            /\ template[i + 1] = "{"
            /\ IdentifierAt(template, i + 2)
            /\ IdentifierEnd(template, i + 2) <= Len(template)
            /\ template[IdentifierEnd(template, i + 2)] = "}"
    THEN [group |-> "braced",
          text |-> SubSeq(template, i + 2, IdentifierEnd(template, i + 2) - 1),
          end |-> IdentifierEnd(template, i + 2) + 1]
    ELSE [group |-> "invalid", text |-> <<>>, end |-> i + 1]

\* The pieces pattern.sub walks over from position i: the matches of the
\* pattern and, between them, the characters copied as they are.
RECURSIVE Pieces(_, _)
Pieces(template, i) ==
    IF i > Len(template) THEN <<>>
    ELSE IF template[i] # "$"
    THEN <<[group |-> "literal", text |-> <<template[i]>>, end |-> i + 1]>>
             \o Pieces(template, i + 1)
    ELSE \* one use of the match
         CHOOSE r \in {<<m>> \o Pieces(template, m.end) :
                           m \in {MatchAt(template, i)}} : TRUE

\* convert(mo) of Template.safe_substitute: the value of a name of the
\* mapping; a name the mapping lacks stays as it was written; an escaped or
\* an invalid delimiter gives the delimiter.
Convert(piece, mapping) ==
    IF piece.group = "named"
    THEN IF piece.text \in DOMAIN mapping THEN mapping[piece.text]
         ELSE <<"$">> \o piece.text
    ELSE IF piece.group = "braced"
    THEN IF piece.text \in DOMAIN mapping THEN mapping[piece.text]
         ELSE <<"$", "{">> \o piece.text \o <<"}">>
    ELSE IF piece.group = "literal" THEN piece.text
    ELSE <<"$">>

\* "".join of the converted pieces.
RECURSIVE Substituted(_, _)
Substituted(pieces, mapping) ==
    IF pieces = <<>> THEN <<>>
    ELSE Convert(Head(pieces), mapping) \o Substituted(Tail(pieces), mapping)

\* Template(template).safe_substitute(mapping): the exception raised and
\* the string returned.  mapping[named] on None is a TypeError, which
\* safe_substitute does not catch.
SafeSubstitute(template, mapping) ==
    CHOOSE r \in {IF /\ mapping = None
                     /\ \E k \in DOMAIN pieces :
                            pieces[k].group \in {"named", "braced"}
                  THEN [raised |-> "TypeError", output |-> <<>>]
                  ELSE [raised |-> "", output |-> Substituted(pieces, mapping)] :
                      pieces \in {Pieces(template, 1)}} : TRUE

\* A terminal, created and perhaps initialized, and a template.
InitRender ==
    /\ has_curses = FALSE
    /\ has_colorama \in BOOLEAN
    /\ stream_isatty = TRUE
    /\ terminfo = {}
    /\ cud1 = <<>>
    /\ term_result = None
    /\ term_class = IF has_colorama THEN "ANSITerminal" ELSE "DumbTerminal"
    /\ is_tty = None
    /\ _initialized \in BOOLEAN
    /\ _is_tty = _initialized
    /\ _control_sequences =
           IF ~_initialized THEN None
           ELSE IF term_class = "ANSITerminal" THEN ANSIControlSequences
           ELSE CreateEmptyControlSequences
    /\ _deinit_hook = IF _initialized /\ has_colorama THEN "colorama.deinit" ELSE ""
    /\ term_call = IF _initialized THEN "init" ELSE "create"
    /\ term_error = ""
    /\ stream_out = 0
    /\ with_pc = "outside"
    /\ body_exit = ""
    /\ deinit_calls = 0
    /\ tpl_template \in Templates
    /\ tpl_output = <<>>
    /\ tpl_error = "not called"
    /\ IndexIdle
    /\ RangesIdle
    /\ SessionIdle
    /\ CmpIdle
    /\ GenIdle
    /\ RawIdle
    /\ ScoreIdle
    /\ DrawIdle
    /\ DumbIdle

\* terminal.render(template) (terminal.py:348-395).
Render ==
    /\ tpl_error = "not called"
    /\ \E r \in {SafeSubstitute(tpl_template, _control_sequences)} :
           /\ tpl_output' = r.output
           /\ tpl_error' = r.raised
    /\ UNCHANGED <<tpl_template, outsideRender>>

NextRender ==
    \/ Render

SpecRender == InitRender /\ [][NextRender]_vars


(***************************************************************************)
(* The module-level getch of POSIX systems (terminal.py:59-79).            *)
(***************************************************************************)

\* The terminal attributes the input descriptor can have; setraw gives "raw".
TtyAttributes == {"cooked", "cbreak", "raw"}

\* _kbhit(fd) (terminal.py:55-57): select() says a byte can be read.
_kbhit == fd_pending > 0

\* A finally clause that restores the attributes only when the try block
\* returned.
RestoredUnlessRaised(outcome) ==
    IF outcome \in {"burst", "None"} THEN old_settings[1] ELSE tty_attrs

\* The finally clause (terminal.py:78-79): the attributes after
\* tcsetattr(fd, TCSADRAIN, old_settings), however the try block was left.
Restored(outcome) == old_settings[1]

\* No _getch call is running; the descriptor has some attributes and some
\* bytes may wait on it.
InitGetch ==
    /\ tty_attrs \in TtyAttributes
    /\ tty_attrs0 = tty_attrs
    /\ old_settings = None
    /\ getch_block \in BOOLEAN
    /\ fd_pending \in 0..MaxPending
    /\ getch_read = 0
    /\ getch_pc = "idle"
    /\ getch_outcome = ""
    /\ IndexIdle
    /\ RangesIdle
    /\ SessionIdle
    /\ CmpIdle
    /\ GenIdle
    /\ TermIdle
    /\ TplIdle
    /\ ScoreIdle
    /\ DrawIdle
    /\ DumbIdle

\* A key is pressed: its bytes wait on the descriptor.
KeyArrives ==
    /\ fd_pending + getch_read < MaxPending
    /\ fd_pending' = fd_pending + 1
    /\ UNCHANGED <<tty_attrs, tty_attrs0, old_settings, getch_block, getch_read,
                   getch_pc, getch_outcome, outsideGetch>>

\* _getch(block) is called: old_settings = termios.tcgetattr(fd)
\* (terminal.py:62-63).
GetchEnter ==
    /\ getch_pc = "idle"
    /\ getch_block' \in BOOLEAN
    /\ tty_attrs0' = tty_attrs
    /\ old_settings' = Some(tty_attrs)
    /\ getch_read' = 0
    /\ getch_outcome' = ""
    /\ getch_pc' = "setraw"
    /\ UNCHANGED <<tty_attrs, fd_pending, outsideGetch>>

\* setraw(fd) (terminal.py:65).
GetchSetRaw ==
    /\ getch_pc = "setraw"
    /\ tty_attrs' = "raw"
    /\ getch_pc' = "poll"
    /\ UNCHANGED <<tty_attrs0, old_settings, getch_block, fd_pending, getch_read,
                   getch_outcome, outsideGetch>>

\* `if not block and not _kbhit(fd): return None` (terminal.py:67-70).
GetchPoll ==
    /\ getch_pc = "poll"
    /\ IF ~getch_block /\ ~_kbhit
       THEN /\ getch_outcome' = "None"
            /\ getch_pc' = "finally"
       ELSE /\ getch_pc' = "read"
            /\ UNCHANGED getch_outcome
    /\ UNCHANGED <<tty_attrs, tty_attrs0, old_settings, getch_block, fd_pending,
                   getch_read, outsideGetch>>

\* os.read(fd, 1) (terminal.py:74, 76): it waits for a byte, and returns it
\* or raises (a signal, a closed descriptor).
GetchRead ==
    /\ getch_pc = "read"
    /\ _kbhit
    /\ \E raises \in BOOLEAN :
           IF raises
           THEN /\ getch_outcome' = "OSError"
                /\ getch_pc' = "finally"
                /\ UNCHANGED <<fd_pending, getch_read>>
           ELSE /\ fd_pending' = fd_pending - 1
                /\ getch_read' = getch_read + 1
                /\ getch_pc' = "loop"
                /\ UNCHANGED getch_outcome
    /\ UNCHANGED <<tty_attrs, tty_attrs0, old_settings, getch_block, outsideGetch>>

\* `while _kbhit(fd)` (terminal.py:75) and `return b"".join(result)`
\* (terminal.py:77).
GetchLoop ==
    /\ getch_pc = "loop"
    /\ IF _kbhit
       THEN /\ getch_pc' = "read"
            /\ UNCHANGED getch_outcome
       ELSE /\ getch_outcome' = "burst"
            /\ getch_pc' = "finally"
    /\ UNCHANGED <<tty_attrs, tty_attrs0, old_settings, getch_block, fd_pending,
                   getch_read, outsideGetch>>

\* The finally clause runs and _getch is left (terminal.py:78-79).
GetchFinally ==
    /\ getch_pc = "finally"
    /\ tty_attrs' = Restored(getch_outcome)
    /\ getch_pc' = "idle"
    /\ UNCHANGED <<tty_attrs0, old_settings, getch_block, fd_pending, getch_read,
                   getch_outcome, outsideGetch>>

NextGetch ==
    \/ KeyArrives
    \/ GetchEnter
    \/ GetchSetRaw
    \/ GetchPoll
    \/ GetchRead
    \/ GetchLoop
    \/ GetchFinally

SpecGetch == InitGetch /\ [][NextGetch]_vars

(***************************************************************************)
(* FuzzyIndex._score_token and _find_end_of_match called on their own      *)
(* (indexing.py:162-196, 229-253).                                         *)
(***************************************************************************)

\* The characters of the tokens and queries that are scored; FuzzyIndex
\* lowers both before scoring (indexing.py:146, 209).
FuzzyChars == {"a", "b"}

\* The tokens and the queries that are scored.
FuzzyTokens == StringsUpTo(MaxTokenLen, FuzzyChars)
FuzzyQueries == StringsUpTo(MaxFuzzyQueryLen, FuzzyChars)

\* A query and two tokens; nothing has been scored.
InitScore ==
    /\ sc_query \in FuzzyQueries
    /\ sc_token \in FuzzyTokens
    /\ sc_other \in FuzzyTokens
    /\ sc_start = None
    /\ sc_end = None
    /\ sc_scored = None
    /\ IndexIdle
    /\ RangesIdle
    /\ SessionIdle
    /\ CmpIdle
    /\ GenIdle
    /\ TermIdle
    /\ TplIdle
    /\ RawIdle
    /\ DrawIdle
    /\ DumbIdle

\* self._find_end_of_match(rest, token, match_start) for one of the start
\* positions _score_token tries (indexing.py:247-248).
FindEndOfMatchCall ==
    /\ sc_query # <<>>
    /\ \E pq \in {PrepareQuery(sc_query)} :
       \E starts \in {each_index_of_string(pq.first, sc_token)} :
       \E k \in DOMAIN starts :
           /\ sc_start' = Some(starts[k])
           /\ sc_end' = Some(FindEndOfMatch(pq.rest, sc_token, starts[k]))
    /\ UNCHANGED <<sc_query, sc_token, sc_other, sc_scored, outsideScore>>

\* self._score_token(token, prepared_query) for each of the two tokens
\* (indexing.py:229-253).
ScoreTokenCall ==
    /\ sc_scored = None
    /\ \E pq \in {PrepareQuery(sc_query)} :
           sc_scored' = Some(<<ScoreToken(sc_token, pq), ScoreToken(sc_other, pq)>>)
    /\ UNCHANGED <<sc_query, sc_token, sc_other, sc_start, sc_end, outsideScore>>

NextScore ==
    \/ FindEndOfMatchCall
    \/ ScoreTokenCall

SpecScore == InitScore /\ [][NextScore]_vars

(***************************************************************************)
(* SmartTerminalUI on the terminal (ui.py:141-319): what refresh, hide and *)
(* choose_item write, and where the writes leave the cursor.  Rows are     *)
(* counted from the row the cursor is on when the UI is first drawn, and   *)
(* lines are taken to be wider than what is written on them.               *)
(***************************************************************************)
\* SmartTerminalUI.__init__ (ui.py:146): prompt="> ".
prompt == <<">", " ">>

\* One write to the terminal: a control sequence or a text, and how often
\* or how long.
Wrote(what, n) == [op |-> what, n |-> n]

\* Terminal.move_cursor(x, dx, dy) with y=None (terminal.py:314-345).
MoveCursor(x, dx, dy) ==
    (IF dy > 0 THEN <<Wrote("DOWN", dy)>>
     ELSE IF dy < 0 THEN <<Wrote("UP", -dy)>>
     ELSE <<>>)
    \o (IF x # None
        THEN <<Wrote("BOL", 1)>> \o (IF x[1] > 0 THEN <<Wrote("RIGHT", x[1])>> ELSE <<>>)
        ELSE IF dx > 0 THEN <<Wrote("RIGHT", dx)>>
        ELSE IF dx < 0 THEN <<Wrote("LEFT", -dx)>>
        ELSE <<>>)

\* The loop of _show_matches (ui.py:313-317) on the first `count` matches:
\* the rendered match, then a line feed.  The width of a rendered match
\* plays no part in what follows; it is 1 here.
RECURSIVE ShowMatchesLoop(_)
ShowMatchesLoop(count) ==
    IF count = 0 THEN <<>>
    ELSE <<Wrote("text", 1), Wrote("\\n", 1)>> \o ShowMatchesLoop(count - 1)

\* _show_matches(matches) (ui.py:303-319) on a list of `matches` matches:
\* what it writes and the number of lines it returns.
_show_matches(matches) ==
    [written |-> ShowMatchesLoop(Min2(matches, hit_list_limit)),
     returned |-> Min2(matches, hit_list_limit)]

\* refresh (ui.py:231-261) with a query of `qlen` characters that `matches`
\* items match: the writes of the first draw if the UI is not shown, then
\* the matches and the prompt inside hidden_cursor (terminal.py:300-307).
refresh(shown, matches, qlen) ==
    CHOOSE r \in {
        [lines |-> shown_matches.returned,
         written |->
             (IF ~shown
              THEN <<Wrote("\\n", hit_list_limit + 1)>>
                       \o MoveCursor(None, 0, -(hit_list_limit + 1))
              ELSE <<>>)
             \o <<Wrote("HIDE_CURSOR", 1)>>
             \o MoveCursor(Some(0), 0, 1)
             \o shown_matches.written
             \o <<Wrote("CLEAR_EOS", 1)>>
             \o MoveCursor(Some(0), 0, -shown_matches.returned - 1)
             \o <<Wrote("text", Len(prompt)), Wrote("text", qlen),
                  Wrote("CLEAR_EOL", 1), Wrote("SHOW_CURSOR", 1)>>] :
            shown_matches \in {_show_matches(matches)}} : TRUE

\* _hide (ui.py:195-197).
_hide == MoveCursor(Some(0), 0, 0) \o <<Wrote("CLEAR_EOS", 1)>>

\* hide (ui.py:186-193), which is all dispose does (ui.py:183-184): what it
\* writes and the _ui_shown it leaves.
hide(shown) ==
    IF ~shown THEN [written |-> <<>>, shown |-> FALSE]
    ELSE [written |-> _hide, shown |-> FALSE]

\* print("Unhandled char: ...") (ui.py:181) on the stream of the terminal:
\* the text, then a line feed.
PrintUnhandled == <<Wrote("text", 1), Wrote("\\n", 1)>>

\* The rows the cursor has moved down after the first k of the writes: a
\* line feed and DOWN go down, UP goes up.
RECURSIVE RowsMoved(_, _)
RowsMoved(written, k) ==
    IF k = 0 THEN 0
    ELSE RowsMoved(written, k - 1)
             + (IF written[k].op \in {"\\n", "DOWN"} THEN written[k].n
                ELSE IF written[k].op = "UP" THEN -written[k].n
                ELSE 0)

\* The column of the cursor after the first k of the writes: a line feed
\* and BOL go to column 0, RIGHT and a text go right, LEFT goes left.
RECURSIVE ColumnAfter(_, _, _)
ColumnAfter(col, written, k) ==
    IF k = 0 THEN col
    ELSE IF written[k].op \in {"\\n", "BOL"} THEN 0
    ELSE ColumnAfter(col, written, k - 1)
             + (IF written[k].op \in {"RIGHT", "text"} THEN written[k].n
                ELSE IF written[k].op = "LEFT" THEN -written[k].n
                ELSE 0)

\* The cursor after a sequence of writes that starts at `cursor`, with the
\* topmost (lo) and the bottommost (hi) row it was on.
Drawn(cursor, written) ==
    CHOOSE t \in {[row |-> cursor.row + RowsMoved(written, Len(written)),
                   col |-> ColumnAfter(cursor.col, written, Len(written)),
                   lo |-> CHOOSE r \in rows : \A other \in rows : r <= other,
                   hi |-> CHOOSE r \in rows : \A other \in rows : r >= other] :
                      rows \in {{cursor.row + RowsMoved(written, k) :
                                     k \in 0..Len(written)}}} : TRUE

\* The ways the UI.use scope is left.
UseExits == {"normal", "cancelled", "exception"}

\* Before SmartTerminalUI is constructed: the cursor is on row 0.
InitDraw ==
    /\ dr_pc = "new"
    /\ dr_shown = FALSE
    /\ dr_row = 0
    /\ dr_col = 0
    /\ dr_lo = 0
    /\ dr_hi = 0
    /\ dr_lines = 0
    /\ dr_matches = 0
    /\ dr_qlen = 0
    /\ dr_prints = 0
    /\ dr_disposes = 0
    /\ dr_call = ""
    /\ dr_exit = ""
    /\ dr_written = <<>>
    /\ IndexIdle
    /\ RangesIdle
    /\ SessionIdle
    /\ CmpIdle
    /\ GenIdle
    /\ TermIdle
    /\ TplIdle
    /\ RawIdle
    /\ ScoreIdle
    /\ DumbIdle

\* The steps that end with refresh: the constructor and the two setters.
Refreshes == {"SmartTerminalUI", "query", "selected_index"}

\* A refresh that draws `matches` matches and a query of `qlen` characters.
DrawRefresh(matches, qlen) ==
    \E r \in {refresh(dr_shown, matches, qlen)} :
    \E t \in {Drawn([row |-> dr_row, col |-> dr_col],
                    r.written)} :
        /\ dr_shown' = TRUE
        /\ dr_written' = r.written
        /\ dr_lines' = r.lines
        /\ dr_matches' = matches
        /\ dr_qlen' = qlen
        /\ dr_row' = t.row
        /\ dr_col' = t.col
        /\ dr_lo' = t.lo
        /\ dr_hi' = t.hi

\* SmartTerminalUI(terminal) (ui.py:146-153) and `with ui.use(index)`
\* (ui.py:49-52): reset() sets the query to '' and refresh draws the UI for
\* the first time, with no index and no matches.
DrawConstruct ==
    /\ dr_pc = "new"
    /\ dr_pc' = "session"
    /\ dr_call' = "SmartTerminalUI"
    /\ DrawRefresh(0, 0)
    /\ UNCHANGED <<dr_prints, dr_disposes, dr_exit, outsideDraw>>

\* The query setter (ui.py:222-229) with a query that differs from the
\* current one: choose_item's initial query, a printable key, Backspace,
\* Ctrl-U or Ctrl-W.  The number of matches is what search returns.
DrawSetQuery ==
    /\ dr_pc = "session"
    /\ dr_call' = "query"
    /\ \E qlen \in (0..MaxQueryChars) \ {dr_qlen} :
       \E matches \in 0..MaxMatchCount :
           DrawRefresh(matches, qlen)
    /\ UNCHANGED <<dr_pc, dr_prints, dr_disposes, dr_exit, outsideDraw>>

\* The selected_index setter (ui.py:276-283) with an index that differs
\* from the current one: Ctrl-N or Ctrl-P with two or more visible matches.
DrawSetSelectedIndex ==
    /\ dr_pc = "session"
    /\ dr_matches >= 2
    /\ dr_call' = "selected_index"
    /\ \E matches \in {dr_matches} :
       \E qlen \in {dr_qlen} :
           DrawRefresh(matches, qlen)
    /\ UNCHANGED <<dr_pc, dr_prints, dr_disposes, dr_exit, outsideDraw>>

\* choose_item reads a key that no branch handles (ui.py:180-181).
DrawUnhandledKey ==
    /\ dr_pc = "session"
    /\ dr_prints < MaxPrints
    /\ dr_prints' = dr_prints + 1
    /\ dr_call' = "print"
    /\ dr_written' = PrintUnhandled
    /\ \E t \in {Drawn([row |-> dr_row, col |-> dr_col],
                       PrintUnhandled)} :
           /\ dr_row' = t.row
           /\ dr_col' = t.col
    /\ UNCHANGED <<dr_pc, dr_shown, dr_lo, dr_hi, dr_lines, dr_matches, dr_qlen,
                   dr_disposes, dr_exit, outsideDraw>>

\* A dispose() call (ui.py:183-193).
DrawDispose ==
    \E r \in {hide(dr_shown)} :
    \E t \in {Drawn([row |-> dr_row, col |-> dr_col],
                    r.written)} :
        /\ dr_disposes' = dr_disposes + 1
        /\ dr_shown' = r.shown
        /\ dr_written' = r.written
        /\ dr_row' = t.row
        /\ dr_col' = t.col

\* The UI.use scope is left, when choose_item returned, was cancelled or
\* raised: the finally clause calls dispose() (ui.py:53-55).
DrawUseExit ==
    /\ dr_pc = "session"
    /\ dr_pc' = "exited"
    /\ dr_call' = "use"
    /\ \E how \in UseExits : dr_exit' = how
    /\ DrawDispose
    /\ UNCHANGED <<dr_lo, dr_hi, dr_lines, dr_matches, dr_qlen, dr_prints, outsideDraw>>

\* dispose() or hide() is called once more after the scope was left.
DrawDisposeAgain ==
    /\ dr_pc = "exited"
    /\ dr_disposes < MaxDisposes
    /\ dr_call' = "dispose"
    /\ DrawDispose
    /\ UNCHANGED <<dr_pc, dr_exit, dr_lo, dr_hi, dr_lines, dr_matches, dr_qlen,
                   dr_prints, outsideDraw>>

NextDraw ==
    \/ DrawConstruct
    \/ DrawSetQuery
    \/ DrawSetSelectedIndex
    \/ DrawUnhandledKey
    \/ DrawUseExit
    \/ DrawDisposeAgain

SpecDraw == InitDraw /\ [][NextDraw]_vars

(***************************************************************************)
(* DumbTerminalUI.choose_item (ui.py:97-109): the numbered list and the    *)
(* line read at the prompt.                                                *)
(***************************************************************************)
\* The characters of a line: digits, a sign and a letter.
LineChars == {"0", "1", "2", "-", "a"}
Lines == StringsUpTo(MaxLineLen, LineChars)

\* The value of a decimal digit.
DigitValue(c) == IF c = "0" THEN 0 ELSE IF c = "1" THEN 1 ELSE 2

\* The value of a string of decimal digits.
RECURSIVE DigitsValue(_)
DigitsValue(digits) ==
    IF digits = <<>> THEN 0
    ELSE 10 * DigitsValue(SubSeq(digits, 1, Len(digits) - 1))
             + DigitValue(digits[Len(digits)])

IsDigits(string) ==
    /\ string # <<>>
    /\ \A k \in DOMAIN string : string[k] \in {"0", "1", "2"}

\* safeint(value, default) (utils.py:77-89): int(value), or the default
\* when int raises (utils.py:70-73).  int takes decimal digits with an
\* optional sign.
safeint(value, default) ==
    IF IsDigits(value) THEN DigitsValue(value)
    ELSE IF value # <<>> /\ value[1] = "-" /\ IsDigits(Tail(value))
    THEN -DigitsValue(Tail(value))
    ELSE default

\* What index.search(query) returns to the UI: a list of `count` matches,
\* each known by the query that found it and its place in the list.
SearchResult(query, count) == [k \in 1..count |-> [query |-> query, place |-> k]]

\* `match_index > 0 and match_index <= len(matches)` (ui.py:106): "True",
\* "False", or the TypeError of len(None).
Picks(match_index, matches) ==
    IF match_index <= 0 THEN "False"
    ELSE IF matches = None THEN "TypeError"
    ELSE IF match_index <= Len(matches[1]) THEN "True"
    ELSE "False"

\* Before choose_item is called.
InitDumb ==
    /\ du_pc = "new"
    /\ du_matches = None
    /\ du_query = None
    /\ du_line = None
    /\ du_result = None
    /\ du_error = ""
    /\ IndexIdle
    /\ RangesIdle
    /\ SessionIdle
    /\ CmpIdle
    /\ GenIdle
    /\ TermIdle
    /\ TplIdle
    /\ RawIdle
    /\ ScoreIdle
    /\ DrawIdle

\* choose_item(initial_query) up to the prompt (ui.py:98-100): the index is
\* searched only for an initial query that is neither None nor empty (both
\* are <<>> here).
DumbChooseItem ==
    /\ du_pc = "new"
    /\ du_pc' = "prompt"
    /\ \E initial \in Lines :
           IF initial = <<>>
           THEN UNCHANGED <<du_matches, du_query>>
           ELSE \E count \in 0..MaxDumbMatches :
                    /\ du_query' = Some(initial)
                    /\ du_matches' = Some(SearchResult(initial, count))
    /\ UNCHANGED <<du_line, du_result, du_error, outsideDumb>>

\* read_query returns None on Ctrl-C and on end of file (ui.py:119-124),
\* and choose_item returns None (ui.py:102-103).
DumbCancel ==
    /\ du_pc = "prompt"
    /\ du_pc' = "returned"
    /\ du_line' = None
    /\ du_result' = None
    /\ UNCHANGED <<du_matches, du_query, du_error, outsideDumb>>

\* One turn of the loop on a line (ui.py:100-109): a match is returned, or
\* the line is searched and the matches are shown for the next prompt.
DumbReadLine ==
    /\ du_pc = "prompt"
    /\ \E query \in Lines :
       \E picks \in {Picks(safeint(query, 0), du_matches)} :
           /\ du_line' = Some(query)
           /\ IF picks = "TypeError"
              THEN /\ du_pc' = "raised"
                   /\ du_error' = "TypeError"
                   /\ UNCHANGED <<du_matches, du_query, du_result>>
              ELSE IF picks = "True"
              THEN /\ du_pc' = "returned"
                   /\ du_result' = Some(du_matches[1][safeint(query, 0)])
                   /\ UNCHANGED <<du_matches, du_query, du_error>>
              ELSE /\ \E count \in 0..MaxDumbMatches :
                          du_matches' = Some(SearchResult(query, count))
                   /\ du_query' = Some(query)
                   /\ UNCHANGED <<du_pc, du_result, du_error>>
    /\ UNCHANGED outsideDumb

NextDumb ==
    \/ DumbChooseItem
    \/ DumbCancel
    \/ DumbReadLine

SpecDumb == InitDumb /\ [][NextDumb]_vars

(***************************************************************************)
(* Claims about the interactive session (specification Spec).              *)
(***************************************************************************)
\* choose_item waits for a key.
Waiting == ui_pc = "getch"

\* C1: whenever choose_item waits for a key, the selected index is None or
\* satisfies 0 <= index < min(len(matches), hit_list_limit).
C1_SelectedIndexOnVisiblePage ==
    Waiting =>
        \/ selected_index = None
        \/ /\ 0 <= selected_index[1]
           /\ selected_index[1] < Min2(Len(best_matches), hit_list_limit)

\* C2: Enter makes choose_item return the Match at the selected index of the
\* current match list, or None when no match is selected; it never fails
\* with an error.
C2_EnterReturnsSelectedMatch ==
    char = "enter" =>
        /\ ui_pc = "returned"
        /\ retval = IF selected_index = None THEN None
                    ELSE Some(best_matches[selected_index[1] + 1])

\* Two match lists show the same items with the same strings and scores in
\* the same order.
SameMatches(ms, ns) ==
    /\ Len(ms) = Len(ns)
    /\ \A i \in 1..Len(ms) :
           /\ ms[i].matched_object = ns[i].matched_object
           /\ ms[i].matched_string = ns[i].matched_string
           /\ ms[i].score = ns[i].score

\* C3: from the first wait for a key on, the stored match list is
\* index.search(query) for the current query, and at the first wait the
\* query is the seed (the empty string for an empty or None seed).
C3_MatchesAreSearchOfQuery ==
    Waiting =>
        /\ char = NoKey =>
               _query = (IF initial_query = None THEN <<>> ELSE initial_query[1])
        /\ Search(_query).raised = ""
        /\ SameMatches(best_matches, Search(_query).matches)

\* The latest key was Ctrl-N or Ctrl-P.
MoveKeys == {"ctrl_n", "ctrl_p"}

\* C18: with n = min(len(matches), hit_list_limit) >= 1 and the selected
\* index in 0..n-1, Ctrl-N sets the selected index to (index + 1) mod n and
\* Ctrl-P sets it to (index - 1) mod n.
C18_MoveSelectionWraps ==
    [][(/\ Waiting
        /\ char' \in MoveKeys
        /\ NumVisibleMatches(best_matches) >= 1
        /\ selected_index # None
        /\ selected_index[1] \in 0..(NumVisibleMatches(best_matches) - 1))
       => selected_index' =
              Some((selected_index[1] + (IF char' = "ctrl_n" THEN 1 ELSE -1))
                       % NumVisibleMatches(best_matches))]_vars

\* Ctrl-P was handled with at least two matches shown and left the last of
\* them selected.
C18_Witness ==
    /\ Waiting
    /\ char = "ctrl_p"
    /\ NumVisibleMatches(best_matches) >= 2
    /\ selected_index = Some(NumVisibleMatches(best_matches) - 1)

\* C19: a move-selection key leaves the query unchanged and makes no call
\* of index.search.
C19_MoveSelectionDoesNotSearch ==
    [][(Waiting /\ char' \in MoveKeys) =>
           /\ _query' = _query
           /\ searches' = 0]_vars

\* The values of getch that are neither Enter-like, backspace-like, Ctrl-N,
\* Ctrl-P, Ctrl-U, Ctrl-W nor printable text: the cursor-key constants, and
\* control characters and escape bursts nothing recognises.
OtherKeys == CursorKeys \cup {"unhandled"}

\* C21: for every value of getch that is neither Enter-like, backspace-like,
\* Ctrl-N, Ctrl-P, Ctrl-U, Ctrl-W nor printable text (the cursor-key
\* constants and unrecognised escape bursts included) choose_item leaves
\* the query, the matches and the selected index unchanged and goes on to
\* read the next key without raising.
C21_OtherKeysAreIgnored ==
    [][(Waiting /\ char' \in OtherKeys) =>
           /\ ui_pc' = "getch"
           /\ ui_error' = ""
           /\ _query' = _query
           /\ best_matches' = best_matches
           /\ selected_index' = selected_index]_vars

\* t with the longest suffix made of non-space characters followed by
\* spaces removed.
RECURSIVE WithoutLastWord(_)
WithoutLastWord(t) ==
    IF \E k \in 0..Len(t) :
           /\ \A i \in 1..k : t[i] # " "
           /\ \A i \in (k + 1)..Len(t) : t[i] = " "
    THEN <<>>
    ELSE <<Head(t)>> \o WithoutLastWord(Tail(t))

\* C22: Ctrl-W replaces the query by the query without its trailing spaces
\* and the run of non-space characters before them: a prefix of the old
\* query that is empty or ends with a space; the match list is then the
\* result of searching the new query.
C22_CtrlWDeletesLastWord ==
    [][(Waiting /\ char' = "ctrl_w" /\ ui_pc' = "getch") =>
           /\ _query' = WithoutLastWord(_query)
           /\ _query' = <<>> \/ _query'[Len(_query')] = " "
           /\ SameMatches(best_matches', Search(_query').matches)]_vars

\* C20: a burst equal to 0x03 or 0x04 makes Terminal.getch raise
\* (KeyboardInterrupt, EOFError) and choose_item return None, whatever the
\* query, the matches and the selected index are.
C20_BreakAndEofReturnNone ==
    char \in {BREAK, EOF} =>
        /\ GetchRaises(char) # ""
        /\ ui_pc = "returned"
        /\ retval = None

\* Ctrl-D ended a session that had a query, matches and a selected index.
C20_Witness ==
    /\ char = EOF
    /\ ui_pc = "returned"
    /\ _query # <<>>
    /\ best_matches # <<>>
    /\ selected_index # None

(***************************************************************************)
(* Properties of SubstringIndex.search and FuzzyIndex.search.              *)
(***************************************************************************)
Searched == last_query # <<>>
Query == last_query[1]

AllItems == {p[1] : p \in added}
\* The tokens the tokenizer derived from an item, as given to the index.
TokensOf(item) == {p[2] : p \in {x \in added : x[1] = item}}
MatchedObjects == {last_result[i].matched_object : i \in 1..Len(last_result)}

\* q's characters appear in t in order, not necessarily contiguously.
IsSubsequence(q, t) ==
    \E f \in [1..Len(q) -> 1..Len(t)] :
        /\ \A i \in 1..Len(q) : \A j \in 1..Len(q) : i < j => f[i] < f[j]
        /\ \A i \in 1..Len(q) : t[f[i]] = q[i]

\* The 0-based positions at which q occurs in t as a contiguous substring.
Occurrences(q, t) ==
    {p \in 0..(Len(t) - Len(q)) : \A j \in 1..Len(q) : t[p + j] = q[j]}

\* C4: for a query of two or more characters FuzzyIndex.search returns
\* exactly one Match for each distinct item with a token that contains the
\* query's characters in order (case-insensitively), and none for any other
\* item.
C4_FuzzyMatchesSubsequences ==
    (index_kind = "FuzzyIndex" /\ Searched /\ Len(Query) >= 2) =>
        /\ last_error = ""
        /\ MatchedObjects =
               {item \in AllItems :
                   \E t \in TokensOf(item) : IsSubsequence(Lower(Query), Lower(t))}
        /\ Len(last_result) = Cardinality(MatchedObjects)

\* C4 witness: of two items in a fuzzy index, exactly one is returned, and
\* it matches only with a gap, through a token that is not in lower case.
C4_Witness ==
    /\ index_kind = "FuzzyIndex" /\ Searched /\ Len(Query) >= 2
    /\ Cardinality(AllItems) = 2
    /\ Len(last_result) = 1
    /\ \A t \in TokensOf(last_result[1].matched_object) :
           /\ Occurrences(Lower(Query), Lower(t)) = {}
           /\ Lower(t) # t

\* The numeric cost of a Match: Match.score of a SubstringIndex match, the
\* first component of Match.score of a FuzzyIndex match.
Cost(m) == IF index_kind = "FuzzyIndex" THEN m.score[1] ELSE m.score

\* Ascending by cost, equal costs ascending by display string.
SortedByCostThenString(ms) ==
    \A i \in 1..Len(ms) : \A j \in 1..Len(ms) :
        i < j =>
            \/ Cost(ms[i]) < Cost(ms[j])
            \/ /\ Cost(ms[i]) = Cost(ms[j])
               /\ ~StrLess(ms[j].matched_string, ms[i].matched_string)

\* C5: the list returned by FuzzyIndex.search is sorted ascending by cost,
\* matches of equal cost ascending by display string.
C5_FuzzySortedByCostThenString ==
    (index_kind = "FuzzyIndex" /\ Searched /\ last_error = "") =>
        SortedByCostThenString(last_result)

\* C6: the list returned by SubstringIndex.search is sorted ascending by
\* cost (the match position in Match.score), matches of equal cost ascending
\* by display string.
C6_SubstringSortedByCostThenString ==
    (index_kind = "SubstringIndex" /\ Searched /\ last_error = "") =>
        SortedByCostThenString(last_result)

\* The string as SubstringIndex compares it.
Folded(str) == IF case_sensitive THEN str ELSE Lower(str)

\* C7: for a non-empty query SubstringIndex.search returns exactly one Match
\* for each distinct item with a token that contains the query as a
\* contiguous substring (both lower-cased when the index is
\* case-insensitive) and none for any other item; the cost of the Match of
\* a single-token item is the position of the query's first occurrence in
\* that token.
C7_SubstringMatchesOccurrences ==
    (index_kind = "SubstringIndex" /\ Searched /\ Query # <<>>) =>
        /\ last_error = ""
        /\ MatchedObjects =
               {item \in AllItems :
                   \E t \in TokensOf(item) :
                       Occurrences(Folded(Query), Folded(t)) # {}}
        /\ Len(last_result) = Cardinality(MatchedObjects)
        /\ \A i \in 1..Len(last_result) :
               \A t \in TokensOf(last_result[i].matched_object) :
                   TokensOf(last_result[i].matched_object) = {t} =>
                       last_result[i].score =
                           SetMin(Occurrences(Folded(Query), Folded(t)))

\* C7 witness: of two items in a case-insensitive index exactly one is
\* returned, for a query that is not in lower case, at position 1 of its
\* only token.
C7_Witness ==
    /\ index_kind = "SubstringIndex" /\ ~case_sensitive
    /\ Searched /\ Query # <<>> /\ Lower(Query) # Query
    /\ Cardinality(AllItems) = 2
    /\ Len(last_result) = 1
    /\ Cardinality(TokensOf(last_result[1].matched_object)) = 1
    /\ last_result[1].score = 1

\* The tokens of an item that match the query of a FuzzyIndex search, and
\* the cost _score_token gives a token.
FuzzyMatchingTokens(item) ==
    {t \in TokensOf(item) : ScoreToken(Lower(t), PrepareQuery(Query)).matched}
FuzzyTokenCost(t) == ScoreToken(Lower(t), PrepareQuery(Query)).score

\* C12: when several tokens of an item match a fuzzy query, the Match of
\* the item carries the lowest cost among those tokens.
C12_FuzzyKeepsLowestCost ==
    (index_kind = "FuzzyIndex" /\ Searched /\ last_error = "") =>
        \A i \in 1..Len(last_result) :
            Cardinality(FuzzyMatchingTokens(last_result[i].matched_object)) >= 2 =>
                Cost(last_result[i]) =
                    SetMin({FuzzyTokenCost(t) :
                               t \in FuzzyMatchingTokens(last_result[i].matched_object)})

\* The tokens of an item that contain the query of a SubstringIndex search.
SubstringMatchingTokens(item) ==
    {t \in TokensOf(item) : Occurrences(Folded(Query), Folded(t)) # {}}

\* C13: the cost of a SubstringIndex Match is the minimum, over the tokens
\* of its item that contain the query, of the position of the query's first
\* occurrence in the token.
C13_SubstringKeepsEarliestPosition ==
    (index_kind = "SubstringIndex" /\ Searched /\ last_error = "") =>
        \A i \in 1..Len(last_result) :
            SubstringMatchingTokens(last_result[i].matched_object) # {} =>
                Cost(last_result[i]) =
                    SetMin({SetMin(Occurrences(Folded(Query), Folded(t))) :
                               t \in SubstringMatchingTokens(
                                         last_result[i].matched_object)})

\* Two half-open ranges share a position.
Overlap(r1, r2) == r1[1] < r2[2] /\ r2[1] < r1[2]

\* C14: for a non-empty query the highlighted ranges of a SubstringIndex
\* Match are occurrences of the query in the display string, each of length
\* len(query), and no two of them overlap.
C14_SubstringRangesApart ==
    (index_kind = "SubstringIndex" /\ Searched /\ Query # <<>> /\ last_error = "") =>
        \A i \in 1..Len(last_result) :
            LET subs == last_result[i].substrings
                shown == Folded(last_result[i].matched_string)
            IN /\ \A k \in 1..Len(subs) :
                      /\ subs[k][2] - subs[k][1] = Len(Query)
                      /\ subs[k][1] \in Occurrences(Folded(Query), shown)
               /\ \A k \in 1..Len(subs) : \A l \in 1..Len(subs) :
                      k # l => ~Overlap(subs[k], subs[l])

\* C15: every Match of FuzzyIndex.search carries exactly one highlighted
\* range, the best-match span of the token of its item whose cost the Match
\* carries, also when the tokens of the item differ from its display
\* string.
C15_FuzzyRangeIsWinningSpan ==
    (index_kind = "FuzzyIndex" /\ Searched /\ last_error = "") =>
        \A i \in 1..Len(last_result) :
            /\ Len(last_result[i].substrings) = 1
            /\ \E t \in FuzzyMatchingTokens(last_result[i].matched_object) :
                   /\ FuzzyTokenCost(t) = Cost(last_result[i])
                   /\ last_result[i].substrings[1] =
                          ScoreToken(Lower(t), PrepareQuery(Query)).range

\* C16: FuzzyIndex.search('') returns the empty list, whatever the index
\* holds, and raises nothing.
C16_FuzzyEmptyQueryFindsNothing ==
    (index_kind = "FuzzyIndex" /\ Searched /\ Query = <<>>) =>
        /\ last_error = ""
        /\ last_result = <<>>

\* The empty query was searched in a FuzzyIndex that holds two items.
C16_Witness ==
    /\ index_kind = "FuzzyIndex" /\ Searched /\ Query = <<>>
    /\ Cardinality(AllItems) = 2
    /\ last_result = <<>>

(***************************************************************************)
(* Properties of Match.canonicalize / canonical_ranges.                    *)
(***************************************************************************)
\* The positions covered by a list of half-open ranges [start, end).
Covered(rs) ==
    {x \in 0..MaxPos : \E i \in 1..Len(rs) : rs[i][1] <= x /\ x < rs[i][2]}

CanonicalizeDone == canon_pc = "idle" /\ canon_calls >= 1

\* C8: the positions covered by canonical_ranges(ranges) are exactly the
\* positions covered by at least one input range.
C8_CoverageKept ==
    CanonicalizeDone => Covered(substrings) = Covered(ranges0)

\* Sorted by start, and every range ends strictly before the next one starts.
SortedApart(rs) ==
    \A i \in 1..Len(rs) : \A j \in 1..Len(rs) :
        i < j => (rs[i][1] <= rs[j][1] /\ rs[i][2] < rs[j][1])

\* C9: for two or more input ranges the output of canonical_ranges is sorted
\* ascending by start, pairwise disjoint and without touching ranges, and the
\* merge loop always terminates.
C9_SortedApartAndTerminates ==
    /\ [](CanonicalizeDone /\ Len(ranges0) >= 2 => SortedApart(substrings))
    /\ (canon_pc = "loop" ~> canon_pc = "idle")

\* C9 witness: three input ranges of which two were merged and two remain.
C9_Witness ==
    /\ CanonicalizeDone
    /\ Len(ranges0) = 3
    /\ Len(substrings) = 2
    /\ Covered(substrings) # {}

\* C10: canonicalizing an already canonicalized match changes nothing:
\* canonical_ranges(canonical_ranges(r)) = canonical_ranges(r).
C10_Idempotent ==
    [][(canon_calls >= 1 /\ canon_calls' = canon_calls + 1)
         => substrings' = substrings]_vars

\* C10 witness: a second canonicalize call has completed on a match whose
\* first canonicalization had merged ranges.
C10_Witness ==
    /\ canon_pc = "idle"
    /\ canon_calls = 2
    /\ Len(ranges0) >= 2
    /\ Len(substrings) < Len(ranges0)
    /\ Len(substrings) >= 2

(***************************************************************************)
(* Claims about Match.__lt__ (specification SpecMatch).                    *)
(***************************************************************************)
Compared == cmp_lt # <<>>

\* (score, matched_string) of a precedes that of b lexicographically.
LexLess(a, b) ==
    \/ a.score < b.score
    \/ a.score = b.score /\ StrLess(a.matched_string, b.matched_string)

\* C11: a < b on Match objects is the strict lexicographic order on
\* (score, matched_string): it is never the case that both a < b and b < a,
\* and a < b with b < c gives a < c.
C11_LessIsLexicographic ==
    Compared =>
        /\ cmp_lt.ab <=> LexLess(cmp_a, cmp_b)
        /\ ~(cmp_lt.ab /\ cmp_lt.ba)
        /\ (cmp_lt.ab /\ cmp_lt.bc) => cmp_lt.ac

(***************************************************************************)
(* Claims about each_index_of_string (specification FairSpecEachIndex).    *)
(***************************************************************************)
GenDone == gen_pc = "done"

StrictlyAscending(s) ==
    \A i \in 1..Len(s) : \A j \in 1..Len(s) : i < j => s[i] < s[j]

\* C17: each_index_of_string(s, corpus) yields, strictly ascending and
\* without repetition, exactly the indices i with corpus[i:i+len(s)] == s,
\* overlapping occurrences included: len(corpus)+1 indices for s = "", none
\* for an empty corpus and a non-empty s; and it always terminates.
C17_YieldsEveryOccurrenceAscending ==
    /\ [](/\ StrictlyAscending(gen_yielded)
          /\ SeqRange(gen_yielded) \subseteq Occurrences(gen_string, gen_corpus))
    /\ [](GenDone =>
             /\ SeqRange(gen_yielded) = Occurrences(gen_string, gen_corpus)
             /\ gen_string = <<>> => Len(gen_yielded) = Len(gen_corpus) + 1
             /\ (gen_corpus = <<>> /\ gen_string # <<>>) => gen_yielded = <<>>)
    /\ <>GenDone

\* The generator returned after it yielded two occurrences that overlap.
C17_Witness ==
    /\ GenDone
    /\ gen_string = <<"a", "a">>
    /\ gen_corpus = <<"a", "a", "a">>
    /\ gen_yielded = <<0, 1>>

(***************************************************************************)
(* Claims about Terminal (specification SpecTerminal).                     *)
(***************************************************************************)

\* The last call was SmartTerminalUI(terminal) and it was made on a
\* terminal that init() had set up.
ConstructedOnInitialized ==
    /\ term_call = "SmartTerminalUI"
    /\ _initialized
    /\ _control_sequences # None

\* C23: constructing a SmartTerminalUI on an initialized terminal whose
\* table has an empty entry for one of LEFT, RIGHT, UP, DOWN fails with
\* NotSupportedError, and nothing is written to the terminal by the call.
C23_SmartUINeedsCursorMovement ==
    [][(/\ term_call' = "SmartTerminalUI"
        /\ _initialized
        /\ _control_sequences # None
        /\ \E token \in {LEFT, RIGHT, UP, DOWN} :
               _control_sequences[token] = <<>>)
       => /\ term_error' = "NotSupportedError"
          /\ stream_out' = stream_out]_vars

\* C23's case: the constructor has failed on an initialized DumbTerminal.
C23_Witness ==
    /\ ConstructedOnInitialized
    /\ term_class = "DumbTerminal"
    /\ term_error = "NotSupportedError"
    /\ stream_out = 0

\* C24: on the no-op backend, init() raises TerminalInitError exactly when
\* the terminal is initialized and deinit() exactly when it is not; a call
\* that raises leaves the initialized flag and the table unchanged, and a
\* successful deinit() leaves the terminal uninitialized, its table cleared.
C24_InitAndDeinitAlternate ==
    [][(term_class = "DumbTerminal" /\ term_call' \in {"init", "deinit"})
       => /\ term_error' \in {"", "TerminalInitError"}
          /\ term_call' = "init" =>
                 (term_error' = "TerminalInitError" <=> _initialized)
          /\ term_call' = "deinit" =>
                 (term_error' = "TerminalInitError" <=> ~_initialized)
          /\ term_error' # "" =>
                 /\ _initialized' = _initialized
                 /\ _control_sequences' = _control_sequences
          /\ (term_call' = "deinit" /\ term_error' = "") =>
                 /\ ~_initialized'
                 /\ _control_sequences' = None]_vars

\* C24's case: a deinit() has succeeded on the no-op backend, outside any
\* with-block.
C24_Witness ==
    /\ term_class = "DumbTerminal"
    /\ term_call = "deinit"
    /\ term_error = ""
    /\ ~_initialized
    /\ with_pc = "outside"

\* C25: a with-block over a terminal calls deinit() exactly once when it is
\* left, whether the body completes, returns or raises; the exception of the
\* body still propagates, and the terminal is uninitialized afterwards.
C25_WithBlockDeinitsOnce ==
    [][(with_pc = "body" /\ with_pc' = "after")
       => /\ _initialized
          /\ deinit_calls' = 1
          /\ ~_initialized'
          /\ body_exit' = "exception" <=> term_error' = "BodyError"
          /\ body_exit' # "exception" => term_error' = ""]_vars

\* C25's case: a with-block was left by an exception.
C25_Witness ==
    /\ with_pc = "after"
    /\ body_exit = "exception"
    /\ term_error = "BodyError"
    /\ deinit_calls = 1
    /\ ~_initialized

\* Whether the terminal was created for a TTY: what is_tty declared, or
\* what the stream said when nothing was declared.
ForATty == IF is_tty = None THEN stream_isatty ELSE is_tty[1]

\* The backend at this place of the probing order passes its supported check.
Passes(i) == Supported(subclasses[i], ForATty)

\* Terminal.create returned the first backend, in the order CursesTerminal,
\* ANSITerminal, DumbTerminal, that passes its supported check, and did not
\* raise.
CreatedFirstSupported ==
    /\ term_call = "create" => term_error = "" /\ term_class # ""
    /\ term_class # "" =>
           \E i \in 1..3 :
               /\ subclasses[i] = term_class
               /\ Passes(i)
               /\ \A j \in 1..(i - 1) : ~Passes(j)

\* C26 as stated: the first supported backend in the fixed order is
\* returned, NotSupportedError is never raised, and the no-op backend is
\* returned when the stream is not a TTY or is declared not to be one.
C26_CreateProbesInOrder ==
    /\ CreatedFirstSupported
    /\ (term_class # "" /\ (~stream_isatty \/ is_tty = <<FALSE>>)) =>
           term_class = "DumbTerminal"

\* C26 amended: the no-op backend is returned when the terminal is declared
\* not to be a TTY, or when nothing is declared and the stream is not a TTY.
C26_CreateProbesInOrderForEffectiveTty ==
    /\ CreatedFirstSupported
    /\ (term_class # "" /\ ~ForATty) => term_class = "DumbTerminal"

\* C26's case: nothing was declared, the stream is not a TTY, curses and
\* colorama are both there, and the no-op backend was created.
C26_Witness ==
    /\ term_call = "create"
    /\ is_tty = None
    /\ ~stream_isatty
    /\ has_curses
    /\ has_colorama
    /\ term_class = "DumbTerminal"

(***************************************************************************)
(* Claims about Terminal.render (specification SpecRender).                *)
(***************************************************************************)

\* render has been called on an initialized terminal.
Rendered == _initialized /\ tpl_error # "not called"

\* The characters of text stand in template from position i on.
StandsAt(template, i, text) ==
    /\ i + Len(text) - 1 <= Len(template)
    /\ SubSeq(template, i, i + Len(text) - 1) = text

\* ${TOKEN} is written at position i of template.
BracedAt(template, i, token) ==
    StandsAt(template, i, <<"$", "{">> \o token \o <<"}">>)

\* $TOKEN is written at position i of template and the name ends there.
NamedAt(template, i, token) ==
    /\ StandsAt(template, i, <<"$">> \o token)
    /\ \/ i + Len(token) + 1 > Len(template)
       \/ template[i + Len(token) + 1] \notin IdentifierPart

\* The position after the placeholder of a known token written at position
\* i of template, 0 when none is written there.
KnownPlaceholderEnd(template, i) ==
    IF \E token \in ControlTokens : BracedAt(template, i, token)
    THEN i + 3 + Len(CHOOSE token \in ControlTokens : BracedAt(template, i, token))
    ELSE IF \E token \in ControlTokens : NamedAt(template, i, token)
    THEN i + 1 + Len(CHOOSE token \in ControlTokens : NamedAt(template, i, token))
    ELSE 0

\* From position i on, template is made of literal text (no delimiter) and
\* of placeholders of known tokens.
RECURSIVE MadeOfTextAndKnownTokens(_, _)
MadeOfTextAndKnownTokens(template, i) ==
    IF i > Len(template) THEN TRUE
    ELSE IF template[i] # "$" THEN MadeOfTextAndKnownTokens(template, i + 1)
    ELSE IF KnownPlaceholderEnd(template, i) = 0 THEN FALSE
    ELSE MadeOfTextAndKnownTokens(template, KnownPlaceholderEnd(template, i))

\* The literal text of such a template from position i on.
RECURSIVE LiteralText(_, _)
LiteralText(template, i) ==
    IF i > Len(template) THEN <<>>
    ELSE IF template[i] # "$"
    THEN <<template[i]>> \o LiteralText(template, i + 1)
    ELSE LiteralText(template, KnownPlaceholderEnd(template, i))

\* C27: on an initialized DumbTerminal every known token resolves to the
\* empty string, and render of a template made of literal text and of
\* placeholders $TOKEN and ${TOKEN} of known tokens returns the literal text;
\* render("${BG_YELLOW}text${NORMAL}") returns "text".
C27_DumbRenderKeepsLiteralText ==
    (Rendered /\ term_class = "DumbTerminal")
    => /\ \A token \in ControlTokens :
              /\ token \in DOMAIN _control_sequences
              /\ _control_sequences[token] = <<>>
       /\ MadeOfTextAndKnownTokens(tpl_template, 1) =>
              /\ tpl_error = ""
              /\ tpl_output = LiteralText(tpl_template, 1)
       /\ tpl_template = HighlightTemplate =>
              tpl_output = <<"t", "e", "x", "t">>

\* C27's case: the highlighting template was rendered on a DumbTerminal.
C27_Witness ==
    /\ Rendered
    /\ term_class = "DumbTerminal"
    /\ tpl_template = HighlightTemplate
    /\ tpl_output = <<"t", "e", "x", "t">>

\* A placeholder whose name the table lacks.
UnknownPlaceholder(piece) ==
    /\ piece.group \in {"named", "braced"}
    /\ piece.text \notin DOMAIN _control_sequences

\* The pieces of a template with the empty string for every placeholder
\* whose name the table lacks.
RECURSIVE WithUnknownAsEmpty(_)
WithUnknownAsEmpty(pieces) ==
    IF pieces = <<>> THEN <<>>
    ELSE (IF UnknownPlaceholder(Head(pieces)) THEN <<>>
          ELSE Convert(Head(pieces), _control_sequences))
             \o WithUnknownAsEmpty(Tail(pieces))

\* The template rendered has a placeholder whose name the table lacks.
HasUnknownPlaceholder ==
    \E k \in DOMAIN Pieces(tpl_template, 1) :
        UnknownPlaceholder(Pieces(tpl_template, 1)[k])

\* C28: on an initialized terminal, render of a template that references a
\* token absent from the table does not raise and puts the empty string in
\* the place of that placeholder.
C28_UnknownTokenRendersEmpty ==
    (Rendered /\ HasUnknownPlaceholder)
    => /\ tpl_error = ""
       /\ tpl_output = WithUnknownAsEmpty(Pieces(tpl_template, 1))

\* The part of C28 that holds: render does not raise on an unknown token.
UnknownTokenDoesNotRaise == (Rendered /\ HasUnknownPlaceholder) => tpl_error = ""

(***************************************************************************)
(* Claims about add() and search() on one index (specification SpecIndex). *)
(***************************************************************************)

\* The list the index holds for a token, empty for a token it lacks.
ItemsOf(table, token) == IF token \in DOMAIN table THEN table[token] ELSE <<>>

\* The step is a search() call.
SearchStep == last_query = <<>> /\ last_query' # <<>>

\* The step is an add() call.
AddStep == num_adds' = num_adds + 1

\* C29: search(query) leaves the token-to-items index as it is, for every
\* query and both index classes, and add(item) only appends one item to the
\* end of the list of the token it produces, whether or not the list holds
\* the item already; every other list stays as it is.
C29_SearchReadsAddAppends ==
    [][/\ SearchStep =>
              /\ tokens_to_items' = tokens_to_items
              /\ token_order' = token_order
              /\ hash_order' = hash_order
       /\ AddStep =>
              \E token \in DOMAIN tokens_to_items' :
                  /\ Len(tokens_to_items'[token]) =
                         Len(ItemsOf(tokens_to_items, token)) + 1
                  /\ SubSeq(tokens_to_items'[token], 1,
                            Len(tokens_to_items'[token]) - 1) =
                         ItemsOf(tokens_to_items, token)
                  /\ <<tokens_to_items'[token][Len(tokens_to_items'[token])],
                       token>> \in {<<pair[1], StoredToken(index_kind, case_sensitive,
                                                          pair[2])>> : pair \in added'}
                  /\ DOMAIN tokens_to_items' = DOMAIN tokens_to_items \cup {token}
                  /\ \A other \in DOMAIN tokens_to_items \ {token} :
                         tokens_to_items'[other] = tokens_to_items[other]]_vars

\* C29's case: an item was added twice under one token, and the index was
\* then searched.
C29_Witness ==
    /\ Searched
    /\ \E token \in DOMAIN tokens_to_items :
           \E i, j \in DOMAIN tokens_to_items[token] :
               i < j /\ tokens_to_items[token][i] = tokens_to_items[token][j]

(***************************************************************************)
(* Claims about the module-level getch (specification SpecGetch).          *)
(***************************************************************************)

\* A _getch call has been left: it returned a burst or None, or it raised.
GetchLeft == getch_pc = "idle" /\ getch_outcome # ""

\* C30: the input descriptor is in the mode setraw gives it only while
\* _getch runs: once the call has returned a burst, returned None in
\* non-blocking mode or raised during the read, the terminal attributes are
\* those saved at the start of the call.
C30_GetchRestoresAttributes ==
    /\ GetchLeft => tty_attrs = tty_attrs0 /\ old_settings = Some(tty_attrs0)
    /\ getch_pc \in {"poll", "read", "loop", "finally"} => tty_attrs = "raw"
    /\ getch_pc = "idle" => tty_attrs = tty_attrs0

\* C30's case: the read raised in a call made on a cooked terminal, and the
\* call has been left.
C30_Witness ==
    /\ GetchLeft
    /\ getch_outcome = "OSError"
    /\ tty_attrs0 = "cooked"
    /\ tty_attrs = "cooked"

(***************************************************************************)
(* Claims about fuzzy scoring.                                             *)
(***************************************************************************)

\* C31: for a query of one character FuzzyIndex.search and _score_token
\* return without raising; a token that contains the character matches with
\* cost 1 and the span [p, p+1) of the character's first position p in the
\* token, and a token that does not contain it does not match.
C31_FuzzyOneCharacterQuery ==
    (index_kind = "FuzzyIndex" /\ Searched /\ Len(Query) = 1) =>
        /\ last_error = ""
        /\ \A item \in AllItems : \A t \in TokensOf(item) :
               LET st == ScoreToken(Lower(t), PrepareQuery(Query))
                   p == Find(Lower(t), Lower(Query), 0)
               IN /\ st.raised = ""
                  /\ st.matched <=> p >= 0
                  /\ st.matched => st.score = 1 /\ st.range = <<p, p + 1>>

\* A _find_end_of_match call has returned a score and an end.
FoundEnd == sc_end # None /\ sc_end[1].kind = "found"

\* The positions a greedy match takes in token: start, and for each
\* character of rest the first position after the previous one where the
\* character stands (-1 and nothing more once a character is missing).
RECURSIVE GreedyPositions(_, _, _)
GreedyPositions(rest, token, start) ==
    IF rest = <<>> THEN <<start>>
    ELSE IF \E p \in (start + 1)..(Len(token) - 1) : token[p + 1] = Head(rest)
    THEN <<start>> \o GreedyPositions(
             Tail(rest), token,
             CHOOSE p \in (start + 1)..(Len(token) - 1) :
                 /\ token[p + 1] = Head(rest)
                 /\ \A o \in (start + 1)..(p - 1) : token[o + 1] # Head(rest))
    ELSE <<start, -1>>

\* The positions of the greedy match of the latest call.
Positions == GreedyPositions(Tail(sc_query), sc_token, sc_start[1])

\* The gap before the i-th position after the start.
Gap(i) == Positions[i + 1] - Positions[i]

\* The sum of f over 1..n.
RECURSIVE SumUpTo(_, _)
SumUpTo(f, n) == IF n = 0 THEN 0 ELSE f[n] + SumUpTo(f, n - 1)

\* The sum of the gaps greater than 1.
GapCharge ==
    SumUpTo([i \in 1..(Len(Positions) - 1) |-> IF Gap(i) > 1 THEN Gap(i) ELSE 0],
            Len(Positions) - 1)

\* The number of runs of adjacent characters: the characters found right
\* after the previous one whose predecessor was not itself found so.
AdjacentRuns ==
    SumUpTo([i \in 1..(Len(Positions) - 1) |->
                IF Gap(i) = 1 /\ (i = 1 \/ Gap(i - 1) > 1) THEN 1 ELSE 0],
            Len(Positions) - 1)

\* C32 as stated: the cost of a greedy match from a start position is 1
\* plus the sum of the gaps greater than 1; characters found adjacent to
\* the previous matched character add nothing.
C32_CostIsOnePlusGaps ==
    FoundEnd => sc_end[1].score = 1 + GapCharge

\* C32 amended: the cost is 1, plus the sum of the gaps greater than 1,
\* plus 1 for each unbroken run of characters found adjacent to the
\* previous matched character; the end is the last position matched.
C32_CostIsOnePlusGapsAndRuns ==
    FoundEnd =>
        /\ sc_end[1].score = 1 + GapCharge + AdjacentRuns
        /\ sc_end[1].end = Positions[Len(Positions)]

\* C32's case: a run of two characters, each found adjacent to the previous
\* matched character, is charged once.
C32_Witness ==
    /\ FoundEnd
    /\ Len(Positions) = 3
    /\ GapCharge = 0
    /\ AdjacentRuns = 1
    /\ sc_end[1].score = 2

\* _score_token has been called on the two tokens for a query of two or
\* more characters.
ScoredLongQuery == sc_scored # None /\ Len(sc_query) >= 2

\* The start positions _score_token tries in a token, and what
\* _find_end_of_match returns from each.
StartsIn(token) == SeqRange(each_index_of_string(<<sc_query[1]>>, token))
EndFrom(token, start) == FindEndOfMatch(Tail(sc_query), token, start)
MatchingStarts(token) ==
    {start \in StartsIn(token) : EndFrom(token, start).kind = "found"}

\* What _score_token returned is the least cost over the start positions
\* that match, with the span of the earliest start of that cost.
KeepsCheapestEarliest(st, token) ==
    /\ st.raised = ""
    /\ st.matched <=> MatchingStarts(token) # {}
    /\ st.matched =>
           \E start \in MatchingStarts(token) :
               /\ st.score = EndFrom(token, start).score
               /\ st.range = <<start, EndFrom(token, start).end + 1>>
               /\ \A o \in MatchingStarts(token) :
                      \/ EndFrom(token, o).score > st.score
                      \/ EndFrom(token, o).score = st.score /\ o >= start

\* C33: for a query of two or more characters, a token in which the query
\* stands as one contiguous run gets a strictly lower cost than a token the
\* query matches only with gaps; per token the least cost over the start
\* positions is kept, the earliest start winning ties.
C33_ContiguousIsCheaper ==
    ScoredLongQuery =>
        /\ KeepsCheapestEarliest(sc_scored[1][1], sc_token)
        /\ KeepsCheapestEarliest(sc_scored[1][2], sc_other)
        /\ (/\ Occurrences(sc_query, sc_token) # {}
            /\ Occurrences(sc_query, sc_other) = {}
            /\ IsSubsequence(sc_query, sc_other))
           => /\ sc_scored[1][1].matched
              /\ sc_scored[1][2].matched
              /\ sc_scored[1][1].score < sc_scored[1][2].score

\* C33's case: the query stands twice in the token, at equal cost, and the
\* other token matches it only with a gap.
C33_Witness ==
    /\ ScoredLongQuery
    /\ Cardinality(Occurrences(sc_query, sc_token)) = 2
    /\ sc_scored[1][1].range = <<0, 2>>
    /\ Occurrences(sc_query, sc_other) = {}
    /\ sc_scored[1][2].matched
    /\ sc_scored[1][2].score = 3


\* ---------------------------------------------------------------------
\* Claims about the keys and the table of a terminal
\* ---------------------------------------------------------------------

\* Terminal.getch has returned on a terminal that has a table.
GetchReturned ==
    /\ term_call = "getch"
    /\ term_result # None
    /\ _control_sequences # None

\* The Keycodes constant of a cursor token.
KeycodeOf(token) ==
    IF token = UP THEN "Keycodes.UP"
    ELSE IF token = DOWN THEN "Keycodes.DOWN"
    ELSE IF token = LEFT THEN "Keycodes.LEFT"
    ELSE "Keycodes.RIGHT"

\* C36: Terminal.getch returns Keycodes.UP, DOWN, LEFT or RIGHT whenever the
\* burst read equals the sequence the table of the terminal has for that
\* token, and returns every other escape burst as it was read.
C36_GetchMapsCursorBursts ==
    GetchReturned
    => /\ \A token \in CursorTokens :
              term_result[1].burst = _control_sequences[token]
              => term_result[1].key = KeycodeOf(token)
       /\ (/\ term_result[1].burst[1] = "\\x1b"
           /\ \A token \in CursorTokens :
                  term_result[1].burst # _control_sequences[token])
          => /\ term_result[1].key = ""
             /\ term_result[1].chars = term_result[1].burst

\* The three directions getch looks up in the table are mapped.
UpLeftRightAreMapped ==
    GetchReturned
    => \A token \in CursorTokens \ {DOWN} :
           (/\ term_result[1].burst = _control_sequences[token]
            /\ ~(term_result[1].burst = ANSIDownKey /\ _control_sequences[DOWN] = LineFeed))
           => term_result[1].key = KeycodeOf(token)

\* C37: on an initialized terminal, a step of render, supports, write,
\* move_cursor, clear_to_eol, clear_to_eos, hidden_cursor or getch leaves the
\* control-sequence table as it was.
C37_OperationsKeepTheTable ==
    [][(/\ _initialized
        /\ term_call' \in TerminalOperations \cup {"getch"})
       => _control_sequences' = _control_sequences]_vars

\* render has run on an initialized terminal that has a sequence for NORMAL.
C37_Witness ==
    /\ term_call = "render"
    /\ term_error = ""
    /\ _initialized
    /\ _control_sequences # None
    /\ _control_sequences[NORMAL] # <<>>

\* C38: when no match is selected (the match list is empty), Ctrl-N and
\* Ctrl-P do not raise, leave the selected index absent and the query and
\* the matches as they were, and choose_item waits for the next key.
C38_MoveOnEmptyListIsNoOp ==
    [][(/\ Waiting
        /\ char' \in MoveKeys
        /\ selected_index = None)
       => /\ ui_pc' = "getch"
          /\ ui_error' = ""
          /\ selected_index' = None
          /\ _query' = _query
          /\ best_matches' = best_matches]_vars

\* C39: when init() raises part-way (curses.setupterm fails), the terminal
\* is left uninitialized: the init() that follows is accepted and the
\* deinit() that follows is rejected with TerminalInitError.
C39_FailedInitLeavesUninitialized ==
    [][(/\ term_error = "curses.error"
        /\ term_call \in {"init", "__enter__"})
       => /\ ~_initialized
          /\ term_call' \in {"init", "__enter__"} => term_error' # "TerminalInitError"
          /\ term_call' = "deinit" => term_error' = "TerminalInitError"]_vars


\* ---------------------------------------------------------------------
\* Claims about the drawing of SmartTerminalUI (specification SpecDraw)
\* ---------------------------------------------------------------------

\* The match rows among the writes of the latest step: a rendered match
\* followed by a line feed.
MatchRowsWritten ==
    Cardinality({k \in 1..(Len(dr_written) - 1) :
                    /\ dr_written[k] = Wrote("text", 1)
                    /\ dr_written[k + 1] = Wrote("\\n", 1)})

\* C34: with rows counted from the row on which the UI was first drawn,
\* after every refresh the cursor is on the prompt row (row 0) at column
\* len(prompt) + len(query), during the refresh it was never above that row
\* nor below the hit_list_limit + 1 rows reserved by the first draw, and the
\* refresh drew min(len(matches), hit_list_limit) match rows.
C34_RefreshKeepsCursorInUI ==
    dr_call \in Refreshes
    => /\ dr_row = 0
       /\ dr_col = Len(prompt) + dr_qlen
       /\ dr_lo >= 0
       /\ dr_hi <= hit_list_limit + 1
       /\ MatchRowsWritten = Min2(dr_matches, hit_list_limit)

\* A refresh returns the cursor to the row it began on, moves it on that
\* row and the hit_list_limit + 1 rows under it only, and draws
\* min(len(matches), hit_list_limit) match rows.
RefreshReturnsToItsRow ==
    [][dr_call' \in Refreshes
       => /\ dr_row' = dr_row
          /\ dr_col' = Len(prompt) + dr_qlen'
          /\ dr_lo' >= dr_row
          /\ dr_hi' <= dr_row + hit_list_limit + 1
          /\ MatchRowsWritten' = Min2(dr_matches', hit_list_limit)]_vars

\* C35: after the UI.use scope is left, normally, after a cancellation or
\* by an exception, dispose has run once: the terminal got move-to-column-0
\* and then clear-to-end-of-screen with the cursor on the prompt row (row 0)
\* and the UI is marked not shown; a further dispose or hide writes nothing.
C35_UseExitDisposesOnce ==
    dr_pc = "exited"
    => /\ ~dr_shown
       /\ dr_call = "use"
          => /\ dr_disposes = 1
             /\ dr_written = <<Wrote("BOL", 1), Wrote("CLEAR_EOS", 1)>>
             /\ dr_row = 0
       /\ dr_call = "dispose" => dr_written = <<>>

\* The same, wherever the cursor is when the scope is left.
UseExitDisposesOnceOnAnyRow ==
    dr_pc = "exited"
    => /\ ~dr_shown
       /\ dr_call = "use"
          => /\ dr_disposes = 1
             /\ dr_written = <<Wrote("BOL", 1), Wrote("CLEAR_EOS", 1)>>
       /\ dr_call = "dispose" => dr_written = <<>>


\* ---------------------------------------------------------------------
\* Claims about DumbTerminalUI (specification SpecDumb)
\* ---------------------------------------------------------------------

\* The line n picks a match: it parses as an integer n with
\* 1 <= n <= number of current matches.
PicksMatch(line, matches) ==
    /\ matches # None
    /\ safeint(line, 0) >= 1
    /\ safeint(line, 0) <= Len(matches[1])

\* C40: a line that parses as a positive integer n returns the n-th match
\* of the most recent search only when 1 <= n <= number of current matches;
\* every other line, a number entered before any search included, is
\* searched as a new query and nothing is raised.
C40_NumberPicksOrSearches ==
    [][(du_pc = "prompt" /\ du_line' # None)
       => IF PicksMatch(du_line'[1], du_matches)
          THEN /\ du_pc' = "returned"
               /\ du_result' = Some([query |-> du_query[1],
                                     place |-> safeint(du_line'[1], 0)])
          ELSE /\ du_pc' = "prompt"
               /\ du_error' = ""
               /\ du_query' = du_line'
               /\ du_matches' # None]_vars

\* The same once a search has been made.
NumberPicksOrSearchesAfterSearch ==
    [][(du_pc = "prompt" /\ du_line' # None /\ du_matches # None)
       => IF PicksMatch(du_line'[1], du_matches)
          THEN /\ du_pc' = "returned"
               /\ du_result' = Some([query |-> du_query[1],
                                     place |-> safeint(du_line'[1], 0)])
          ELSE /\ du_pc' = "prompt"
               /\ du_error' = ""
               /\ du_query' = du_line'
               /\ du_matches' # None]_vars

====
